---- MODULE Spec2Model ----
(***************************************************************************)
(* A model of the inference-call orchestration layer of the Mind-Mapper    *)
(* chat functions: the dialogue tracker (analyzeConversationDepth), the    *)
(* provider chain (tryModelsInOrder) with its result coercion, and the     *)
(* rate limiter of SecurityManager.                                        *)
(***************************************************************************)
EXTENDS Integers, Sequences, FiniteSets, TLC

VARIABLES
    (* the conversation of a request *)
    messages,       \* the transcript the client sends: <<[role, content], ...>>
    analysis,       \* analyzeConversationDepth(messages), as tryModelsInOrder holds it
    (* one invocation of the process-chat handler *)
    event,          \* the inbound request
    hpc,            \* where the handler is
    modelIndex,     \* the position of the for loop in PREFERRED_MODELS
    inFlight,       \* the positions whose provider call has not ended
    attempts,       \* the provider attempts that ended, in order
    reply,          \* what tryModelsInOrder returned
    response,       \* what the handler answered
    (* the rate limiter of one SecurityManager instance *)
    clock,          \* Date.now(), in milliseconds
    rateLimit,      \* the Map of the instance: key -> timestamps
    limitArgs,      \* the limit in force: [requests, windowMs]
    calls,          \* every decision made so far: <<[time, admitted], ...>>
    (* concurrent invocations of the handler that use the rate limiter *)
    rpc,            \* where each invocation is
    rnow,           \* its const now
    rvalid,         \* its const validTimestamps
    running,        \* the invocation that holds the thread, or "none"
    invoked,        \* how many invocations were started
    dbAvailable     \* supabaseClient is not null

trackerVars == <<messages, analysis>>
chatVars == <<event, hpc, modelIndex, inFlight, attempts, reply, response>>
rateVars == <<clock, rateLimit, limitArgs, calls>>
concVars == <<rpc, rnow, rvalid, running, invoked, dbAvailable>>
vars == <<messages, analysis, event, hpc, modelIndex, inFlight, attempts, reply,
          response, clock, rateLimit, limitArgs, calls, rpc, rnow, rvalid,
          running, invoked, dbAvailable>>

-----------------------------------------------------------------------------
(* Strings.  Contents are real strings; JavaScript's includes, toLowerCase *)
(* and join are computed character by character.                           *)

UpperChars == <<"A","B","C","D","E","F","G","H","I","J","K","L","M",
                "N","O","P","Q","R","S","T","U","V","W","X","Y","Z">>

LowerChars == <<"a","b","c","d","e","f","g","h","i","j","k","l","m",
                "n","o","p","q","r","s","t","u","v","w","x","y","z">>

\* One character of String.prototype.toLowerCase.
LowerChar(c) ==
    IF \E i \in 1..Len(UpperChars) : UpperChars[i] = c
    THEN LowerChars[CHOOSE i \in 1..Len(UpperChars) : UpperChars[i] = c]
    ELSE c

RECURSIVE toLowerCase(_)
toLowerCase(s) ==
    IF Len(s) = 0 THEN ""
    ELSE LowerChar(SubSeq(s, 1, 1)) \o toLowerCase(SubSeq(s, 2, Len(s)))

\* String.prototype.includes: k occurs in s as a contiguous substring.
includes(s, k) ==
    \E i \in 1..(Len(s) - Len(k) + 1) : SubSeq(s, i, i + Len(k) - 1) = k

\* Array.prototype.join(' ') of a sequence of strings.
RECURSIVE join(_)
join(parts) ==
    IF Len(parts) = 0 THEN ""
    ELSE IF Len(parts) = 1 THEN parts[1]
    ELSE parts[1] \o " " \o join(Tail(parts))

-----------------------------------------------------------------------------
(* The dialogue tracker of process-chat.js.                                *)

\* Object.keys(dimensions): insertion order of the literal.
DimensionOrder ==
    <<"extraversion_introversion", "sensing_intuition",
      "thinking_feeling", "judging_perceiving">>

Dimensions == {DimensionOrder[i] : i \in 1..Len(DimensionOrder)}

extraversionKeywords ==
    {"friends", "people", "social", "party", "group", "team", "collaborate", "together"}
introversionKeywords ==
    {"alone", "quiet", "solitude", "independent", "recharge", "private", "myself"}
sensingKeywords ==
    {"details", "facts", "practical", "step-by-step", "concrete", "specific", "proven", "experience"}
intuitionKeywords ==
    {"big picture", "possibilities", "creative", "innovative", "pattern", "future", "theoretical", "abstract"}
thinkingKeywords ==
    {"logical", "analysis", "objective", "pros and cons", "rational", "facts", "direct", "honest"}
feelingKeywords ==
    {"feelings", "values", "harmony", "people", "emotions", "considerate", "tactful", "impact"}
judgingKeywords ==
    {"plan", "schedule", "organized", "deadline", "structure", "early", "steady", "routine"}
perceivingKeywords ==
    {"flexible", "spontaneous", "adapt", "pressure", "last minute", "open", "improvise"}

\* The keyword list passed for each dimension: [...aKeywords, ...bKeywords].
DimensionKeywords(d) ==
    CASE d = "extraversion_introversion" -> extraversionKeywords \cup introversionKeywords
      [] d = "sensing_intuition"         -> sensingKeywords \cup intuitionKeywords
      [] d = "thinking_feeling"          -> thinkingKeywords \cup feelingKeywords
      [] d = "judging_perceiving"        -> judgingKeywords \cup perceivingKeywords

\* The context words passed for each dimension.
DimensionContext(d) ==
    CASE d = "extraversion_introversion" -> {"energy", "recharge", "people", "alone"}
      [] d = "sensing_intuition"         -> {"learn", "information", "approach", "method"}
      [] d = "thinking_feeling"          -> {"decision", "choose", "feedback", "important"}
      [] d = "judging_perceiving"        -> {"schedule", "plan", "work", "time", "assignments"}

poorQualityPhrases ==
    {"i don't know", "not sure", "maybe", "it depends", "sometimes",
     "both", "either", "hard to say", "varies", "depends on", "idk"}

hasRelevantAnswer(content, keywords, contextWords) ==
    LET hasKeywords == \E keyword \in keywords : includes(content, keyword)
        hasContext  == \E word \in contextWords : includes(content, word)
    IN  hasKeywords /\ hasContext

\* The length below which an answer is 'poor', and the one above which an
\* answer with a keyword is 'good'.
PoorLength == 10
GoodLength == 20

assessAnswerQuality(userMessages, relevantKeywords) ==
    IF Len(userMessages) = 0 THEN "none"
    ELSE
      LET recentMessage  == userMessages[Len(userMessages)]
          messageContent == toLowerCase(recentMessage.content)
          messageLength  == Len(messageContent)
          hasPoorIndicators ==
              \E phrase \in poorQualityPhrases : includes(messageContent, phrase)
          hasRelevantKeywords ==
              \E keyword \in relevantKeywords : includes(messageContent, keyword)
      IN  IF hasPoorIndicators \/ messageLength < PoorLength THEN "poor"
          ELSE IF hasRelevantKeywords /\ messageLength > GoodLength THEN "good"
          ELSE "fair"

IsUser(m) == m.role = "user"

\* Variant: only the last message is searched.
lastContentOf(msgs) ==
    IF Len(msgs) = 0 THEN "" ELSE toLowerCase(msgs[Len(msgs)].content)

\* const allContent = messages.map(m => m.content.toLowerCase()).join(' ')
allContentOf(msgs) ==
    join([i \in 1..Len(msgs) |-> toLowerCase(msgs[i].content)])

\* The thresholds of isReadyForAnalysis.
ReadyCovered == 4
ReadyGood == 3

\* Variant: the quality is assessed whether or not the dimension is covered.
analyzeConversationDepthAssessAll(msgs) ==
    LET userMessages == SelectSeq(msgs, IsUser)
        allContent   == allContentOf(msgs)
        dimensions ==
            [d \in Dimensions |->
                [covered |-> hasRelevantAnswer(allContent, DimensionKeywords(d),
                                               DimensionContext(d)),
                 quality |-> assessAnswerQuality(userMessages, DimensionKeywords(d))]]
    IN  [messageCount       |-> Len(userMessages),
         dimensions         |-> dimensions,
         coveredDimensions  |-> Cardinality({d \in Dimensions : dimensions[d].covered}),
         goodQualityAnswers |-> Cardinality({d \in Dimensions : dimensions[d].quality = "good"})]

analyzeConversationDepth(msgs) ==
    LET userMessages == SelectSeq(msgs, IsUser)
        allContent   == allContentOf(msgs)
        dimensions ==
            [d \in Dimensions |->
                IF hasRelevantAnswer(allContent, DimensionKeywords(d), DimensionContext(d))
                THEN [covered |-> TRUE,
                      quality |-> assessAnswerQuality(userMessages, DimensionKeywords(d))]
                ELSE [covered |-> FALSE, quality |-> "none"]]
    IN  [messageCount       |-> Len(userMessages),
         dimensions         |-> dimensions,
         coveredDimensions  |-> Cardinality({d \in Dimensions : dimensions[d].covered}),
         goodQualityAnswers |-> Cardinality({d \in Dimensions : dimensions[d].quality = "good"})]

\* Variant: either threshold is enough.
isReadyEither(a) ==
    a.coveredDimensions >= ReadyCovered \/ a.goodQualityAnswers >= ReadyGood

isReadyForAnalysis(a) ==
    a.coveredDimensions >= ReadyCovered /\ a.goodQualityAnswers >= ReadyGood

\* Object.keys(dimensions).filter(key => !dimensions[key].covered)
NotCovered(a, d) == ~a.dimensions[d].covered

RECURSIVE MissingFrom(_, _)
MissingFrom(a, i) ==
    IF i > Len(DimensionOrder) THEN <<>>
    ELSE IF NotCovered(a, DimensionOrder[i])
         THEN <<DimensionOrder[i]>> \o MissingFrom(a, i + 1)
         ELSE MissingFrom(a, i + 1)

\* Variant: the uncovered dimensions from the last key to the first.
RECURSIVE MissingDownFrom(_, _)
MissingDownFrom(a, i) ==
    IF i < 1 THEN <<>>
    ELSE IF NotCovered(a, DimensionOrder[i])
         THEN <<DimensionOrder[i]>> \o MissingDownFrom(a, i - 1)
         ELSE MissingDownFrom(a, i - 1)

getMissingDimensionsReversed(a) == MissingDownFrom(a, Len(DimensionOrder))

getMissingDimensions(a) == MissingFrom(a, 1)

\* Variant: any covered dimension short of good asks for clarification.
needsClarificationShortOfGood(a) ==
    \E d \in Dimensions : a.dimensions[d].covered /\ a.dimensions[d].quality # "good"

needsClarification(a) ==
    \E d \in Dimensions : a.dimensions[d].covered /\ a.dimensions[d].quality = "poor"


\* The first key, in Object.keys order, that satisfies the test of find().
RECURSIVE FirstPoorFrom(_, _)
FirstPoorFrom(a, i) ==
    IF i > Len(DimensionOrder) THEN "none"
    ELSE IF a.dimensions[DimensionOrder[i]].covered
              /\ a.dimensions[DimensionOrder[i]].quality = "poor"
         THEN DimensionOrder[i]
         ELSE FirstPoorFrom(a, i + 1)

ClarifyQuestion(d) ==
    CASE d = "extraversion_introversion" ->
           "Let me ask this differently: After a long, busy day, what specifically helps you feel recharged - spending time with friends and family, or having quiet time by yourself? Can you give me an example?"
      [] d = "sensing_intuition" ->
           "I'd like to understand better: When you're learning something new (like using a new app or studying), do you prefer to get step-by-step instructions first, or do you like to explore and figure out the big picture yourself?"
      [] d = "thinking_feeling" ->
           "Let me rephrase: When you need to make an important decision, what do you rely on more - analyzing the facts and logic, or considering how it will affect people's feelings? Can you give me a specific example?"
      [] d = "judging_perceiving" ->
           "To clarify: In your daily life, do you prefer having a planned schedule and sticking to it, or do you like keeping things flexible and deciding what to do as you go?"

MissingQuestion(d) ==
    CASE d = "extraversion_introversion" ->
           "After a busy day at school or work, what helps you recharge your energy: being around friends and family, or having some quiet time alone?"
      [] d = "sensing_intuition" ->
           "When learning something new, do you prefer detailed, step-by-step instructions with examples, or do you like to see the big picture first and figure out the details yourself?"
      [] d = "thinking_feeling" ->
           "When making important decisions, what influences you more: logical analysis of pros and cons, or considering how the decision will affect people's feelings and relationships?"
      [] d = "judging_perceiving" ->
           "Do you prefer having a clear plan and schedule for your day, or do you like to keep things flexible and spontaneous, adapting as you go?"
      [] OTHER ->
           "Tell me more about how you prefer to approach daily tasks and decisions."

FinalQuestion ==
    "I'd like to understand one more aspect of your personality. How do you typically handle deadlines and planning?"

getNextQuestion(a) ==
    IF needsClarification(a) THEN ClarifyQuestion(FirstPoorFrom(a, 1))
    ELSE IF Len(getMissingDimensions(a)) > 0 THEN MissingQuestion(getMissingDimensions(a)[1])
    ELSE FinalQuestion

-----------------------------------------------------------------------------
(* JavaScript values.  Every value is a record tagged by t.  Numbers are   *)
(* held in hundredths (0.7 is 70).  A string that carries JSON text is     *)
(* held as a Text: whether it is wrapped in a code fence, whether prose    *)
(* surrounds it, and the JSON value its core denotes (NotJson when the     *)
(* core is no JSON at all).                                                *)

Undefined == [t |-> "undefined"]
Null      == [t |-> "null"]
NaN       == [t |-> "nan"]
NotJson   == [t |-> "notjson"]
Bool(b)   == [t |-> "bool", b |-> b]
Num(n)    == [t |-> "num", n |-> n]
Str(s)    == [t |-> "str", s |-> s]
Arr(a)    == [t |-> "arr", a |-> a]
Obj(o)    == [t |-> "obj", o |-> o]
Text(fenced, prose, json) ==
    [t |-> "text", fenced |-> fenced, prose |-> prose, json |-> json]

EmptyObject == Obj([k \in {} |-> Undefined])

\* typeof v === 'string'
IsString(v) == v.t \in {"str", "text"}

\* ToBoolean
Truthy(v) ==
    CASE v.t \in {"undefined", "null", "nan"} -> FALSE
      [] v.t = "bool" -> v.b
      [] v.t = "num"  -> v.n # 0
      [] v.t = "str"  -> Len(v.s) > 0
      [] OTHER        -> TRUE

\* a || b
OrElse(a, b) == IF Truthy(a) THEN a ELSE b

\* v[k] of a value that is neither null nor undefined
Get(v, k) ==
    IF v.t = "obj" /\ k \in DOMAIN v.o THEN v.o[k] ELSE Undefined

\* v.length
LengthOf(v) ==
    CASE v.t = "str" -> Num(100 * Len(v.s))
      [] v.t = "arr" -> Num(100 * Len(v.a))
      [] OTHER       -> Get(v, "length")

\* ToNumber, for the values the model draws: a string of the model is never
\* numeric text unless it is empty.
ToNumber(v) ==
    CASE v.t = "num"  -> v
      [] v.t = "bool" -> IF v.b THEN Num(100) ELSE Num(0)
      [] v.t = "null" -> Num(0)
      [] v.t = "str"  -> IF Len(v.s) = 0 THEN Num(0) ELSE NaN
      [] v.t = "arr"  -> IF Len(v.a) = 0 THEN Num(0)
                         ELSE IF Len(v.a) = 1 /\ v.a[1].t = "num" THEN v.a[1]
                         ELSE NaN
      [] OTHER        -> NaN

\* Math.max(a, b) and Math.min(a, b)
MathMax(a, b) ==
    LET x == ToNumber(a)
        y == ToNumber(b)
    IN  IF x.t = "nan" \/ y.t = "nan" THEN NaN
        ELSE IF x.n >= y.n THEN x ELSE y

MathMin(a, b) ==
    LET x == ToNumber(a)
        y == ToNumber(b)
    IN  IF x.t = "nan" \/ y.t = "nan" THEN NaN
        ELSE IF x.n <= y.n THEN x ELSE y

\* a < b between a value and a number: false when either side is NaN
LessThan(a, n) ==
    LET x == ToNumber(a)
    IN  x.t = "num" /\ x.n < n

\* arr.slice(0, n)
Slice(v, n) == Arr(SubSeq(v.a, 1, IF Len(v.a) < n THEN Len(v.a) ELSE n))

\* content.replace(/```json\s*|\s*```/g, '').trim(): the fence markers go,
\* surrounding prose stays.
StripFences(text) ==
    IF text.t = "text" THEN [text EXCEPT !.fenced = FALSE] ELSE text

\* JSON.parse of a text: [threw |-> TRUE], or the value.
Thrown == [t |-> "thrown"]

JsonParse(text) ==
    IF text.t = "str" THEN Thrown   \* the literal strings of the model are no JSON
    ELSE IF text.fenced \/ text.prose \/ text.json.t = "notjson" THEN Thrown
    ELSE text.json

\* JSON.stringify of a value inside a result: NaN is written as null.
JsonOfField(v) == IF v.t = "nan" THEN Null ELSE v

\* JSON.stringify(result) of an object literal: a field whose value is
\* undefined is left out.  The text is plain JSON, neither fenced nor in prose.
JsonStringify(result) ==
    LET kept == {k \in DOMAIN result : result[k].t # "undefined"}
    IN  Text(FALSE, FALSE, Obj([k \in kept |-> JsonOfField(result[k])]))

-----------------------------------------------------------------------------
(* The provider chain of process-chat.js.                                  *)

PREFERRED_MODELS ==
    <<"anthropic/claude-3.5-haiku", "google/gemini-flash-1.5-8b",
      "meta-llama/llama-3.1-8b-instruct", "openai/gpt-4o-mini">>

\* A completion as the provider's API wraps it.
Envelope(content) ==
    Obj([choices |-> Arr(<<Obj([message |-> Obj([content |-> content])])>>)])

\* getJsonResponse: [threw |-> TRUE, error], or [threw |-> FALSE, value].
\* The extraction patterns find the interior of a fence, or the span from the
\* first brace to the last one of an object that prose surrounds.
getJsonResponse(resp) ==
    IF ~resp.ok THEN
        [threw |-> TRUE,
         error |-> CASE resp.status = 429 -> "Rate limit exceeded - trying next model"
                     [] resp.status = 503 -> "Service unavailable - trying next model"
                     [] OTHER             -> "API error"]
    ELSE IF JsonParse(resp.body).t # "thrown" THEN
        [threw |-> FALSE, value |-> JsonParse(resp.body)]
    ELSE IF resp.body.json.t # "notjson"
              /\ (resp.body.fenced \/ resp.body.json.t = "obj") THEN
        [threw |-> FALSE,
         value |-> Envelope(Text(FALSE, FALSE, resp.body.json))]
    ELSE [threw |-> TRUE, error |-> "Could not extract valid JSON from response"]

\* v?.[0]
First(v) ==
    CASE v.t = "arr" -> IF Len(v.a) > 0 THEN v.a[1] ELSE Undefined
      [] v.t = "str" -> IF Len(v.s) > 0 THEN Str(SubSeq(v.s, 1, 1)) ELSE Undefined
      [] v.t \in {"undefined", "null"} -> Undefined
      [] OTHER -> Get(v, "0")

\* v?.k
OptGet(v, k) == IF v.t \in {"undefined", "null"} THEN Undefined ELSE Get(v, k)

DefaultStrengths == Arr(<<Str("Engaging in self-reflection")>>)
DefaultGrowthTips == Arr(<<Str("Continue exploring your preferences")>>)

\* slice(0, 5) of the two lists
MaxListed == 5

\* The bounds of the confidence, and the least confidence of a final
\* answer, in hundredths.
MinConfidence == 0
MaxConfidence == 100
ReadyConfidence == 70

\* The length below which a one_liner is replaced by the next question.
MinOneLiner == 10

MissingAsJson(a) ==
    Arr([i \in 1..Len(getMissingDimensions(a)) |-> Str(getMissingDimensions(a)[i])])

\* Variant: the missing_dimensions field without its default.
missingDimensionsNoDefault(parsed, a) == Get(parsed, "missing_dimensions")

\* const result = { type: parsed.type || 'Unknown', ... }
missingDimensionsField(parsed, a) ==
    OrElse(Get(parsed, "missing_dimensions"), MissingAsJson(a))

buildResult(parsed, a) ==
    [type |-> OrElse(Get(parsed, "type"), Str("Unknown")),
     confidence |->
        MathMin(MathMax(OrElse(Get(parsed, "confidence"), Num(MinConfidence)),
                        Num(MinConfidence)),
                Num(MaxConfidence)),
     strengths |->
        IF Get(parsed, "strengths").t = "arr"
        THEN Slice(Get(parsed, "strengths"), MaxListed) ELSE DefaultStrengths,
     growth_tips |->
        IF Get(parsed, "growth_tips").t = "arr"
        THEN Slice(Get(parsed, "growth_tips"), MaxListed) ELSE DefaultGrowthTips,
     one_liner |-> OrElse(Get(parsed, "one_liner"), Str(getNextQuestion(a))),
     validation_status |->
        OrElse(Get(parsed, "validation_status"), Str("need_more_info")),
     missing_dimensions |-> missingDimensionsField(parsed, a)]

\* Variant: the model's own fields are passed on as they are.
enforceNothing(result, a) == result

\* "Enforce validation rules"
enforceValidationRules(result, a) ==
    IF ~isReadyForAnalysis(a) THEN
        [result EXCEPT
            !.type = Str("Unknown"),
            !.confidence = Num(0),
            !.validation_status =
                IF needsClarification(a) THEN Str("clarification_needed")
                ELSE Str("need_more_info"),
            !.one_liner =
                IF ~Truthy(result.one_liner)
                     \/ LessThan(LengthOf(result.one_liner), 100 * MinOneLiner)
                THEN Str(getNextQuestion(a)) ELSE result.one_liner]
    ELSE
        [result EXCEPT
            !.validation_status = Str("ready_for_analysis"),
            !.confidence = MathMax(result.confidence, Num(ReadyConfidence)),
            !.missing_dimensions = Arr(<<>>)]

\* One pass of the loop body once the fetch has ended: the attempt's outcome,
\* with the reply when it succeeds and the error when it fails.
Failure(kind, error) == [outcome |-> kind, error |-> error]

AttemptOutcome(resp, a) ==
    IF resp.kind = "network_error" THEN Failure("networkError", "fetch failed")
    ELSE
      LET got == getJsonResponse(resp)
      IN  IF got.threw THEN
              Failure(IF resp.ok THEN "invalidOutput" ELSE "httpError", got.error)
          ELSE
            LET chatJson == got.value
                choice   == First(OptGet(chatJson, "choices"))
                content  == OptGet(Get(choice, "message"), "content")
                parsed   == IF IsString(content) THEN JsonParse(StripFences(content))
                            ELSE content
            IN  IF ~Truthy(choice) THEN
                    Failure("invalidOutput", "Invalid response structure")
                ELSE IF ~Truthy(content) THEN
                    Failure("invalidOutput", "No content in response")
                ELSE IF parsed.t = "thrown" THEN
                    Failure("invalidOutput", "JSON validation failed: SyntaxError")
                ELSE IF parsed.t = "null" THEN
                    Failure("invalidOutput", "JSON validation failed: TypeError")
                ELSE
                    [outcome |-> "success",
                     reply |-> JsonStringify(
                                  enforceValidationRules(buildResult(parsed, a), a))]

\* The reply when no provider succeeded.
fallbackReply(a) ==
    JsonStringify(
        [type |-> Str("Unknown"),
         confidence |-> Num(0),
         strengths |-> Arr(<<Str("You're open to self-discovery"),
                             Str("You're engaging thoughtfully")>>),
         growth_tips |-> Arr(<<Str("Take time to think about your natural preferences"),
                               Str("Answer based on what feels most authentic to you")>>),
         one_liner |-> Str(getNextQuestion(a)),
         validation_status |->
            IF needsClarification(a) THEN Str("clarification_needed")
            ELSE Str("need_more_info"),
         missing_dimensions |-> MissingAsJson(a)])

-----------------------------------------------------------------------------
(* What the providers may answer.                                          *)

Strs(seq) == Arr([i \in 1..Len(seq) |-> Str(seq[i])])

FinalAnswer ==
    Obj([type |-> Str("INTJ"), confidence |-> Num(85),
         strengths |-> Strs(<<"Strategic", "Independent", "Determined">>),
         growth_tips |-> Strs(<<"Listen more", "Rest", "Share credit">>),
         one_liner |-> Str("You are a strategic, independent thinker."),
         validation_status |-> Str("ready_for_analysis"),
         missing_dimensions |-> Arr(<<>>)])

QuestionReply ==
    Obj([type |-> Str("Unknown"), confidence |-> Num(0),
         strengths |-> Strs(<<"Curious">>),
         growth_tips |-> Strs(<<"Keep going">>),
         one_liner |-> Str("Do you plan your day or keep it open?"),
         validation_status |-> Str("need_more_info"),
         missing_dimensions |-> Strs(<<"judging_perceiving">>)])

\* a final answer with a modest confidence
ModestAnswer ==
    Obj([type |-> Str("INTJ"), confidence |-> Num(55),
         strengths |-> Strs(<<"Strategic", "Independent", "Determined">>),
         growth_tips |-> Strs(<<"Listen more", "Rest", "Share credit">>),
         one_liner |-> Str("You are a strategic, independent thinker."),
         validation_status |-> Str("ready_for_analysis"),
         missing_dimensions |-> Arr(<<>>)])

WrongTypes ==
    Obj([type |-> Num(4200), confidence |-> Str("high"),
         strengths |-> Str("curious"), growth_tips |-> Null,
         one_liner |-> Num(700), validation_status |-> Arr(<<>>),
         missing_dimensions |-> Str("none")])

FalsyFields ==
    Obj([type |-> Str(""), confidence |-> Num(0),
         strengths |-> Arr(<<>>), growth_tips |-> Arr(<<>>),
         one_liner |-> Str(""), validation_status |-> Str(""),
         missing_dimensions |-> Null])

OutOfRange ==
    Obj([type |-> Str("ENFP"), confidence |-> Num(150),
         strengths |-> Strs(<<"a", "b", "c", "d", "e", "f">>),
         one_liner |-> Str("ok?"),
         validation_status |-> Str("ready_for_analysis")])

NegativeConfidence ==
    Obj([type |-> Bool(TRUE), confidence |-> Num(-20),
         one_liner |-> Bool(TRUE)])

ReplyObjects ==
    <<FinalAnswer, QuestionReply, WrongTypes, FalsyFields, OutOfRange,
      NegativeConfidence, EmptyObject>>

\* choices[0].message.content
ProviderContents ==
    <<Str(""), Undefined, Null, Num(500), FinalAnswer,
      Text(FALSE, FALSE, NotJson), Text(FALSE, FALSE, Null),
      Text(FALSE, FALSE, Num(4200)), Text(FALSE, FALSE, Str("INTJ")),
      Text(FALSE, FALSE, Arr(<<>>)),
      Text(TRUE, FALSE, FinalAnswer), Text(FALSE, TRUE, FinalAnswer)>>
    \o [i \in 1..Len(ReplyObjects) |-> Text(FALSE, FALSE, ReplyObjects[i])]

HttpOk(body) == [kind |-> "http", ok |-> TRUE, status |-> 200, body |-> body]
HttpError(status) ==
    [kind |-> "http", ok |-> FALSE, status |-> status,
     body |-> Text(FALSE, FALSE, NotJson)]

ProviderResponses ==
    <<[kind |-> "network_error"],
      HttpError(500), HttpError(429), HttpError(503),
      HttpOk(Text(FALSE, FALSE, NotJson)),
      HttpOk(Text(FALSE, FALSE, Null)),
      HttpOk(Text(FALSE, FALSE, EmptyObject)),
      HttpOk(Text(FALSE, FALSE, Obj([choices |-> Arr(<<>>)]))),
      HttpOk(Text(TRUE, FALSE, FinalAnswer)),
      HttpOk(Text(TRUE, FALSE, ModestAnswer)),
      HttpOk(Text(FALSE, TRUE, QuestionReply)),
      HttpOk(Text(TRUE, FALSE, Num(4200)))>>
    \o [i \in 1..Len(ProviderContents) |->
            HttpOk(Text(FALSE, FALSE, Envelope(ProviderContents[i])))]

User(content) == [role |-> "user", content |-> content]
Assistant(content) == [role |-> "assistant", content |-> content]

\* The transcripts a chat request may carry.
ChatTranscripts ==
    {<<User("hi")>>,
     <<User("I RECHARGE alone at home"), Assistant("Do you like the big picture?"),
       User("Not sure, maybe both")>>,
     <<User("I recharge alone, learn facts, plan decisions")>>,
     <<User("I RECHARGE alone at home"),
       User("I learn with step-by-step instructions"),
       User("My decisions use logical analysis of pros and cons"),
       User("I prefer a flexible schedule")>>}

RequestBodies ==
    {[kind |-> "malformed", isArray |-> FALSE, messages |-> <<>>],
     [kind |-> "json", isArray |-> FALSE, messages |-> <<>>],
     [kind |-> "json", isArray |-> TRUE, messages |-> <<>>]}
    \cup {[kind |-> "json", isArray |-> TRUE, messages |-> t] : t \in ChatTranscripts}

Events ==
    [httpMethod : {"POST", "OPTIONS", "GET"}, apiKey : BOOLEAN, body : RequestBodies]

\* What the conversation store does with an insert (supabase null: "none").
StoreOutcomes == {"none", "saved", "error", "no_id", "threw"}

NoAnalysis == analyzeConversationDepth(<<>>)
NoReply == [t |-> "none"]
NoResponse == [statusCode |-> 0]
NoEvent == [httpMethod |-> "none"]

\* The parts of the state a specification does not use stay as they are here.
ChatIdle ==
    /\ event = NoEvent
    /\ hpc = "idle"
    /\ modelIndex = 0
    /\ inFlight = {}
    /\ attempts = <<>>
    /\ reply = NoReply
    /\ response = NoResponse

Requests == {"r1", "r2"}

RateIdle ==
    /\ clock = 0
    /\ rateLimit = <<>>
    /\ limitArgs = [requests |-> 0, windowMs |-> 0]
    /\ calls = <<>>

ConcIdle ==
    /\ rpc = [r \in Requests |-> "idle"]
    /\ rnow = [r \in Requests |-> 0]
    /\ rvalid = [r \in Requests |-> <<>>]
    /\ running = "none"
    /\ invoked = 0
    /\ dbAvailable = FALSE

-----------------------------------------------------------------------------
(* The handler of process-chat.js and the loop of tryModelsInOrder.        *)

ChatInit ==
    /\ event \in Events
    /\ hpc = "received"
    /\ messages = <<>>
    /\ analysis = NoAnalysis
    /\ modelIndex = 0
    /\ inFlight = {}
    /\ attempts = <<>>
    /\ reply = NoReply
    /\ response = NoResponse
    /\ RateIdle
    /\ ConcIdle

Respond(r) ==
    /\ response' = r
    /\ hpc' = "responded"

\* if (event.httpMethod === 'OPTIONS') return { statusCode: 200, ... }
HandleOptions ==
    /\ hpc = "received"
    /\ event.httpMethod = "OPTIONS"
    /\ Respond([statusCode |-> 200, body |-> [kind |-> "empty"]])
    /\ UNCHANGED <<messages, analysis, event, modelIndex, inFlight, attempts, reply, rateVars, concVars>>

HandleWrongMethod ==
    /\ hpc = "received"
    /\ event.httpMethod \notin {"OPTIONS", "POST"}
    /\ Respond([statusCode |-> 405, body |-> [kind |-> "error", error |-> "Method Not Allowed"]])
    /\ UNCHANGED <<messages, analysis, event, modelIndex, inFlight, attempts, reply, rateVars, concVars>>

\* The catch of the handler: a missing API key or a body that is no JSON.
ErrorResponse(message) ==
    [statusCode |-> 500,
     body |-> [kind |-> "error", error |-> "Service temporarily unavailable",
               message |-> message]]

HandleThrow ==
    /\ hpc = "received"
    /\ event.httpMethod = "POST"
    /\ ~event.apiKey \/ event.body.kind = "malformed"
    /\ Respond(ErrorResponse(IF ~event.apiKey THEN "API key not configured"
                             ELSE "SyntaxError"))
    /\ UNCHANGED <<messages, analysis, event, modelIndex, inFlight, attempts, reply, rateVars, concVars>>

ValidPayload(body) == body.kind = "json" /\ body.isArray /\ Len(body.messages) > 0

HandleInvalidPayload ==
    /\ hpc = "received"
    /\ event.httpMethod = "POST" /\ event.apiKey /\ event.body.kind = "json"
    /\ ~ValidPayload(event.body)
    /\ Respond([statusCode |-> 400,
                body |-> [kind |-> "error", error |-> "Invalid payload: messages[] required"]])
    /\ UNCHANGED <<messages, analysis, event, modelIndex, inFlight, attempts, reply, rateVars, concVars>>

\* await tryModelsInOrder(messages): the analysis, then the loop starts.
EnterChain ==
    /\ hpc = "received"
    /\ event.httpMethod = "POST" /\ event.apiKey /\ ValidPayload(event.body)
    /\ messages' = event.body.messages
    /\ analysis' = analyzeConversationDepth(event.body.messages)
    /\ modelIndex' = 1
    /\ hpc' = "chain"
    /\ UNCHANGED <<event, inFlight, attempts, reply, response, rateVars, concVars>>

\* await fetch(...) for the model the loop is at.
StartCall ==
    /\ hpc = "chain"
    /\ inFlight = {}
    /\ modelIndex <= Len(PREFERRED_MODELS)
    /\ inFlight' = inFlight \cup {modelIndex}
    /\ UNCHANGED <<messages, analysis, event, hpc, modelIndex, attempts, reply, response, rateVars, concVars>>

\* Variant: a success does not end the loop.
EndsLoopNever(outcome) == FALSE

\* Whether an attempt that ended this way ends the loop (return) or lets it
\* go on to the next model (continue).
EndsLoop(outcome) == outcome = "success"

\* The fetch ends with resp; the rest of the loop body runs.
CallEnds(resp) ==
    /\ hpc = "chain"
    /\ modelIndex \in inFlight
    /\ LET out == AttemptOutcome(resp, analysis)
       IN  /\ attempts' = Append(attempts,
                             [model |-> PREFERRED_MODELS[modelIndex],
                              outcome |-> out.outcome,
                              resp |-> IF out.outcome = "success" THEN resp
                                       ELSE [kind |-> "failed"]])
           /\ inFlight' = inFlight \ {modelIndex}
           /\ IF out.outcome = "success"
              THEN reply' = out.reply
              ELSE reply' = reply
           /\ IF EndsLoop(out.outcome)
              THEN hpc' = "saving" /\ modelIndex' = modelIndex
              ELSE hpc' = hpc /\ modelIndex' = modelIndex + 1
    /\ UNCHANGED <<messages, analysis, event, response, rateVars, concVars>>

\* Variant: the exhausted chain raises instead of returning a fallback.
ExhaustedThrows == "throw"

\* How tryModelsInOrder completes once the loop has run out of models.
ExhaustedCompletion == "return"

ChainExhausted ==
    /\ hpc = "chain"
    /\ inFlight = {}
    /\ modelIndex > Len(PREFERRED_MODELS)
    /\ IF ExhaustedCompletion = "return"
       THEN /\ reply' = fallbackReply(analysis)
            /\ hpc' = "saving"
            /\ response' = response
       ELSE /\ reply' = reply
            /\ Respond(ErrorResponse("All providers failed"))
    /\ UNCHANGED <<messages, analysis, event, modelIndex, inFlight, attempts, rateVars, concVars>>

\* The insert into the store, whatever becomes of it, then the answer.
ConversationId(store) ==
    IF store = "saved" THEN [from |-> "store"] ELSE [from |-> "clock"]

SaveAndRespond(store) ==
    /\ hpc = "saving"
    /\ Respond([statusCode |-> 200,
                body |-> [kind |-> "reply", reply |-> reply,
                          conversation_id |-> ConversationId(store)]])
    /\ UNCHANGED <<messages, analysis, event, modelIndex, inFlight, attempts, reply, rateVars, concVars>>

ChatNext ==
    \/ HandleOptions
    \/ HandleWrongMethod
    \/ HandleThrow
    \/ HandleInvalidPayload
    \/ EnterChain
    \/ StartCall
    \/ \E i \in 1..Len(ProviderResponses) : CallEnds(ProviderResponses[i])
    \/ ChainExhausted
    \/ \E store \in StoreOutcomes : SaveAndRespond(store)

SpecChat == ChatInit /\ [][ChatNext]_vars

-----------------------------------------------------------------------------
(* Properties of the provider chain.                                       *)

\* tryModelsInOrder has returned a reply to the handler.
Returned == hpc \in {"saving", "responded"} /\ reply.t # "none"
Succeeded(i) == attempts[i].outcome = "success"
AllFailed ==
    /\ Len(attempts) = Len(PREFERRED_MODELS)
    /\ \A i \in 1..Len(attempts) : ~Succeeded(i)
ReplyField(k) == reply.json.o[k]

RequiredFields ==
    {"type", "confidence", "strengths", "growth_tips", "one_liner",
     "validation_status", "missing_dimensions"}

\* C3: the providers are attempted in the order of PREFERRED_MODELS, one at
\* a time and each at most once; a call starts only when every earlier
\* attempt has failed; the reply is the output of the first attempt that
\* succeeded, and no provider is called after it.
C3_SequentialFirstSuccess ==
    /\ Cardinality(inFlight) <= 1
    /\ Len(attempts) <= Len(PREFERRED_MODELS)
    /\ \A i \in 1..Len(attempts) : attempts[i].model = PREFERRED_MODELS[i]
    /\ \A i \in 1..Len(attempts) :
          /\ attempts[i].outcome \in
                {"success", "httpError", "networkError", "invalidOutput"}
          /\ i < Len(attempts) => ~Succeeded(i)
    /\ inFlight # {} =>
          /\ inFlight = {Len(attempts) + 1}
          /\ \A i \in 1..Len(attempts) : ~Succeeded(i)
    /\ (Len(attempts) > 0 /\ Succeeded(Len(attempts))) =>
          /\ Returned
          /\ inFlight = {}
          /\ reply = AttemptOutcome(attempts[Len(attempts)].resp, analysis).reply

C3_Witness ==
    /\ hpc = "responded"
    /\ Len(attempts) = 3
    /\ attempts[1].outcome = "httpError"
    /\ attempts[2].outcome = "invalidOutput"
    /\ Succeeded(3)

\* C4: when every provider failed, tryModelsInOrder returns the degraded
\* reply (Unknown, confidence 0, non-empty lists, the next question, a
\* not-ready status, the tracker's missing dimensions) and the handler
\* answers 200 with that reply and a conversation id.
C4_ExhaustedChainDegrades ==
    AllFailed =>
      /\ hpc \in {"chain", "saving", "responded"}
      /\ Returned =>
            /\ reply.t = "text" /\ reply.json.t = "obj"
            /\ DOMAIN reply.json.o = RequiredFields
            /\ ReplyField("type") = Str("Unknown")
            /\ ReplyField("confidence") = Num(0)
            /\ ReplyField("strengths").t = "arr" /\ Len(ReplyField("strengths").a) > 0
            /\ ReplyField("growth_tips").t = "arr" /\ Len(ReplyField("growth_tips").a) > 0
            /\ ReplyField("one_liner") = Str(getNextQuestion(analysis))
            /\ Len(ReplyField("one_liner").s) > 0
            /\ ReplyField("validation_status") \in
                  {Str("clarification_needed"), Str("need_more_info")}
            /\ ReplyField("missing_dimensions") = MissingAsJson(analysis)
      /\ hpc = "responded" =>
            /\ Returned
            /\ response.statusCode = 200
            /\ response.body.kind = "reply"
            /\ response.body.reply = reply
            /\ response.body.conversation_id.from \in {"store", "clock"}

C4_Witness ==
    /\ hpc = "responded"
    /\ AllFailed
    /\ \A i \in 1..Len(attempts) : attempts[i].outcome = "httpError"
    /\ response.statusCode = 200

\* C5: whatever content the providers return, tryModelsInOrder returns
\* a JSON object that has every required field, and no exception reaches
\* the handler.
C5_ReplyAlwaysComplete ==
    /\ Returned =>
          /\ reply.t = "text" /\ ~reply.fenced /\ ~reply.prose
          /\ reply.json.t = "obj"
          /\ RequiredFields \subseteq DOMAIN reply.json.o
    /\ (hpc = "responded" /\ modelIndex >= 1) =>
          (Returned /\ response.statusCode = 200)

C5_Witness ==
    /\ hpc = "responded"
    /\ Len(attempts) = 2
    /\ attempts[1].outcome = "invalidOutput"
    /\ Succeeded(2)
    /\ attempts[2].resp = HttpOk(Text(FALSE, FALSE, Envelope(Text(FALSE, FALSE, WrongTypes))))
    /\ RequiredFields \subseteq DOMAIN response.body.reply.json.o

\* C6: when the tracker says the conversation is not ready, the reply has
\* type Unknown, confidence 0 and a status other than ready_for_analysis,
\* whatever the model emitted.
C6_NotReadyOverridesModel ==
    (Returned /\ ~isReadyForAnalysis(analysis)) =>
      /\ ReplyField("type") = Str("Unknown")
      /\ ReplyField("confidence") = Num(0)
      /\ ReplyField("validation_status") # Str("ready_for_analysis")

C6_Witness ==
    /\ hpc = "responded"
    /\ messages = <<User("hi")>>
    /\ analysis.coveredDimensions = 0
    /\ Len(attempts) = 1 /\ Succeeded(1)
    /\ attempts[1].resp = HttpOk(Text(FALSE, FALSE, Envelope(Text(FALSE, FALSE, FinalAnswer))))
    /\ ReplyField("type") = Str("Unknown")

-----------------------------------------------------------------------------
(* The conversations the tracker is exercised on.                          *)

MaxMessages == 4

UserContents ==
    {"hi",
     "Not sure, maybe both",
     "I RECHARGE alone at home",
     "I learn with step-by-step instructions",
     "My decisions use logical analysis of pros and cons",
     "I prefer a flexible schedule",
     "I recharge alone, learn facts, plan decisions"}

AssistantContents == {"Do you like the big picture?"}

MessagePool ==
    {User(c) : c \in UserContents} \cup {Assistant(c) : c \in AssistantContents}

TrackerInit ==
    /\ \E m \in MessagePool : messages = <<m>>
    /\ analysis = analyzeConversationDepth(messages)
    /\ ChatIdle
    /\ RateIdle
    /\ ConcIdle

\* The client appends a message to the conversation and posts the whole
\* transcript; tryModelsInOrder analyses it.
AppendMessage(m) ==
    /\ Len(messages) < MaxMessages
    /\ messages' = Append(messages, m)
    /\ analysis' = analyzeConversationDepth(messages')
    /\ UNCHANGED <<chatVars, rateVars, concVars>>

TrackerNext == \E m \in MessagePool : AppendMessage(m)

SpecTracker == TrackerInit /\ [][TrackerNext]_vars

-----------------------------------------------------------------------------
(* Properties of the dialogue tracker.                                     *)

Covered(d) == analysis.dimensions[d].covered
GoodDimensions == {d \in Dimensions : analysis.dimensions[d].quality = "good"}

\* C7: the conversation is ready exactly when all four dimensions are
\* covered and at least three of them have quality good; it is never ready
\* with fewer than four dimensions covered.
C7_ReadyIffAllCoveredThreeGood ==
    /\ isReadyForAnalysis(analysis) <=>
          ((\A d \in Dimensions : Covered(d)) /\ Cardinality(GoodDimensions) >= 3)
    /\ (\E d \in Dimensions : ~Covered(d)) => ~isReadyForAnalysis(analysis)

C7_Witness ==
    /\ Len(messages) = 3
    /\ isReadyForAnalysis(analysis)
    /\ messages[1] = User("hi")

\* C8: appending messages never uncovers a dimension: the covered count
\* never decreases and the missing list never grows.
C8_CoverageMonotonic ==
    [][/\ \A d \in Dimensions : Covered(d) => analysis'.dimensions[d].covered
       /\ analysis'.coveredDimensions >= analysis.coveredDimensions
       /\ Len(getMissingDimensions(analysis')) <= Len(getMissingDimensions(analysis))]_vars

C8_Witness ==
    /\ Len(messages) = 3
    /\ analyzeConversationDepth(<<messages[1]>>).coveredDimensions = 1
    /\ messages[3] = User("hi")
    /\ analysis.coveredDimensions = 2

\* An explicit high-quality answer for dimension d: a user message longer
\* than 20 characters, free of hedge phrases, with a keyword of d, while a
\* context word of d occurs in the transcript.
ExplicitAnswer(d) ==
    /\ \E i \in 1..Len(messages) :
          LET c == toLowerCase(messages[i].content)
          IN  /\ messages[i].role = "user"
              /\ Len(c) > 20
              /\ \A phrase \in poorQualityPhrases : ~includes(c, phrase)
              /\ \E k \in DimensionKeywords(d) : includes(c, k)
    /\ \E w \in DimensionContext(d) : includes(allContentOf(messages), w)

\* C10: a transcript with an explicit high-quality answer for each of the
\* four dimensions is ready for analysis, whatever the order of the answers.
C10_ExplicitAnswersReady ==
    (\A d \in Dimensions : ExplicitAnswer(d)) => isReadyForAnalysis(analysis)

-----------------------------------------------------------------------------
(* The rate limiter of SecurityManager: a Map from the client key to the   *)
(* timestamps of its admitted calls.                                       *)

TrackerIdle ==
    /\ messages = <<>>
    /\ analysis = NoAnalysis

\* hashIP(ip) of the one client whose calls are followed; in the
\* endpoint-keyed variant the endpoint is appended to it.
ClientKey == "3f2a9c0d1b7e4a55"

has(map, key) == key \in DOMAIN map
set(map, key, value) == [k \in DOMAIN map \cup {key} |-> IF k = key THEN value ELSE map[k]]
delete(map, key) == [k \in DOMAIN map \ {key} |-> map[k]]

\* timestamps.filter(time => now - time < windowMs)
validTimestamps(timestamps, now, windowMs) ==
    LET young(time) == now - time < windowMs
    IN  SelectSeq(timestamps, young)

\* the same test with the comparison loosened by one
limitExceededLate(count, requests) == count > requests

\* if (validTimestamps.length >= requests)
limitExceeded(count, requests) == count >= requests

\* The arguments the handlers pass to checkRateLimit(ip, requests, windowMs).
CallSites ==
    {[requests |-> 5, windowMs |-> 60000],
     [requests |-> 10, windowMs |-> 60000]}

\* CONFIG.rateLimits
rateLimits ==
    [chat     |-> [requests |-> 10, windowMs |-> 60000],
     contact  |-> [requests |-> 3, windowMs |-> 300000],
     feedback |-> [requests |-> 5, windowMs |-> 60000]]

maxAge == 86400000

TickMs == 30000
MaxTicks == 2
MaxDays == 1
MaxCalls == 13

Decision(now, admitted) == [time |-> now, admitted |-> admitted]

\* Time passes between two events.
Tick ==
    /\ (clock % maxAge) + TickMs <= MaxTicks * TickMs
    /\ clock' = clock + TickMs
    /\ UNCHANGED <<rateLimit, limitArgs, calls, trackerVars, chatVars, concVars>>

\* The instance stays warm for a day.
DayPasses ==
    /\ clock < MaxDays * maxAge
    /\ clock' = clock + maxAge
    /\ UNCHANGED <<rateLimit, limitArgs, calls, trackerVars, chatVars, concVars>>

\* Variant: the sweep with a horizon shorter than the window of the callers.
cleanupEntryEager(map, key, now) ==
    LET kept == validTimestamps(map[key], now, TickMs)
    IN  IF Len(kept) = 0 THEN delete(map, key) ELSE set(map, key, kept)

\* One pass of the cleanup loop over an entry of the Map.
cleanupEntry(map, key, now) ==
    LET kept == validTimestamps(map[key], now, maxAge)
    IN  IF Len(kept) = 0 THEN delete(map, key) ELSE set(map, key, kept)

\* The callback of setInterval: it runs when no invocation holds the thread.
Cleanup ==
    /\ running = "none"
    /\ rateLimit' = IF has(rateLimit, ClientKey)
                    THEN cleanupEntry(rateLimit, ClientKey, clock)
                    ELSE rateLimit
    /\ UNCHANGED <<clock, limitArgs, calls, trackerVars, chatVars, concVars>>

\* checkRateLimit(ip, requests, windowMs): no await inside, so the whole
\* body is one step.
checkRateLimit ==
    /\ Len(calls) < MaxCalls
    /\ LET now == clock
           created == IF has(rateLimit, ClientKey) THEN rateLimit
                      ELSE set(rateLimit, ClientKey, <<>>)
           valid == validTimestamps(created[ClientKey], now, limitArgs.windowMs)
       IN  IF limitExceeded(Len(valid), limitArgs.requests)
           THEN /\ rateLimit' = created
                /\ calls' = Append(calls, Decision(now, FALSE))
           ELSE /\ rateLimit' = set(created, ClientKey, Append(valid, now))
                /\ calls' = Append(calls, Decision(now, TRUE))
    /\ UNCHANGED <<clock, limitArgs, trackerVars, chatVars, concVars>>

RateInit ==
    /\ clock = 0
    /\ rateLimit = <<>>
    /\ limitArgs \in CallSites
    /\ calls = <<>>
    /\ TrackerIdle
    /\ ChatIdle
    /\ ConcIdle

RateNext == checkRateLimit \/ Tick \/ DayPasses \/ Cleanup

SpecRate == RateInit /\ [][RateNext]_vars

\* The admitted calls among the first n whose timestamp is younger than the
\* window at time now.
AdmittedWithin(n, now) ==
    {j \in 1..n : /\ calls[j].admitted
                  /\ calls[j].time <= now
                  /\ now - calls[j].time < limitArgs.windowMs}

\* C1: a call is admitted exactly when fewer than L earlier admitted calls
\* of the key are younger than the window W; hence no sliding window holds
\* more than L admitted calls.
C1_SlidingWindowAdmission ==
    \A i \in 1..Len(calls) :
        /\ calls[i].admitted <=>
              Cardinality(AdmittedWithin(i - 1, calls[i].time)) < limitArgs.requests
        /\ Cardinality(AdmittedWithin(i, calls[i].time)) <= limitArgs.requests

C1_Witness ==
    /\ limitArgs.requests = 10
    /\ Len(calls) = 12
    /\ \A i \in 1..10 : calls[i].admitted /\ calls[i].time = 0
    /\ ~calls[11].admitted /\ calls[11].time < limitArgs.windowMs
    /\ calls[12].admitted /\ calls[12].time >= limitArgs.windowMs

-----------------------------------------------------------------------------
(* Concurrent invocations of the handler on one warm instance, all of the  *)
(* same client, against the endpoint-keyed checkRateLimit(ip, endpoint).   *)
(* The event loop runs an invocation until it reaches an await.            *)

MaxInvocations == 6

\* the same limiter with one more await, between the check and the store
SuspendsBeforeStore(p) == p \in {"checked", "awaiting", "admitted", "rejected"}

\* The positions at which an invocation gives up the thread: the awaited
\* upsert inside checkRateLimit and the handler's await of its result.
SuspendsAt(p) == p \in {"awaiting", "admitted", "rejected"}

CanRun(r) ==
    \/ running = r
    \/ running = "none" /\ (rpc[r] = "idle" \/ SuspendsAt(rpc[r]))

\* Invocation r moves to position p; the thread is free when p is an await
\* or the end of the handler.
MoveTo(r, p) ==
    /\ rpc' = [rpc EXCEPT ![r] = p]
    /\ running' = IF p = "idle" \/ SuspendsAt(p) THEN "none" ELSE r

\* checkRateLimit returns: its locals are gone.
Return(r, p) ==
    /\ MoveTo(r, p)
    /\ rnow' = [rnow EXCEPT ![r] = 0]
    /\ rvalid' = [rvalid EXCEPT ![r] = <<>>]

\* A request arrives; the handler runs down to the call of checkRateLimit.
Invoke(r) ==
    /\ rpc[r] = "idle" /\ CanRun(r)
    /\ invoked < MaxInvocations
    /\ invoked' = invoked + 1
    /\ MoveTo(r, "called")
    /\ UNCHANGED <<rnow, rvalid, dbAvailable, rateVars, trackerVars, chatVars>>

\* const now; get or create the record; const timestamps; the filter
ReadWindow(r) ==
    /\ rpc[r] = "called" /\ CanRun(r)
    /\ LET created == IF has(rateLimit, ClientKey) THEN rateLimit
                      ELSE set(rateLimit, ClientKey, <<>>)
       IN  /\ rateLimit' = created
           /\ rnow' = [rnow EXCEPT ![r] = clock]
           /\ rvalid' = [rvalid EXCEPT ![r] =
                            validTimestamps(created[ClientKey], clock, limitArgs.windowMs)]
    /\ MoveTo(r, "pruned")
    /\ UNCHANGED <<clock, limitArgs, calls, invoked, dbAvailable, trackerVars, chatVars>>

\* if (validTimestamps.length >= limit.requests) ... return false
CheckLimit(r) ==
    /\ rpc[r] = "pruned" /\ CanRun(r)
    /\ IF limitExceeded(Len(rvalid[r]), limitArgs.requests)
       THEN /\ calls' = Append(calls, Decision(rnow[r], FALSE))
            /\ Return(r, "rejected")
       ELSE /\ calls' = calls
            /\ MoveTo(r, "checked")
            /\ UNCHANGED <<rnow, rvalid>>
    /\ UNCHANGED <<clock, rateLimit, limitArgs, invoked, dbAvailable, trackerVars, chatVars>>

\* validTimestamps.push(now); this.rateLimit.set(key, validTimestamps)
StoreWindow(r) ==
    /\ rpc[r] = "checked" /\ CanRun(r)
    /\ rvalid' = [rvalid EXCEPT ![r] = Append(@, rnow[r])]
    /\ rateLimit' = set(rateLimit, ClientKey, rvalid'[r])
    /\ calls' = Append(calls, Decision(rnow[r], TRUE))
    /\ MoveTo(r, "stored")
    /\ UNCHANGED <<clock, limitArgs, rnow, invoked, dbAvailable, trackerVars, chatVars>>

\* if (supabaseClient) await this.updateDatabaseRateLimit(...); return true
AfterStore(r) ==
    /\ rpc[r] = "stored" /\ CanRun(r)
    /\ IF dbAvailable
       THEN MoveTo(r, "awaiting") /\ UNCHANGED <<rnow, rvalid>>
       ELSE Return(r, "admitted")
    /\ UNCHANGED <<invoked, dbAvailable, rateVars, trackerVars, chatVars>>

\* The upsert resolves, or it rejects and the catch logs it: return true.
UpsertSettles(r) ==
    /\ rpc[r] = "awaiting" /\ CanRun(r)
    /\ Return(r, "admitted")
    /\ UNCHANGED <<invoked, dbAvailable, rateVars, trackerVars, chatVars>>

\* The handler resumes with the result and runs to its response.
Complete(r) ==
    /\ rpc[r] \in {"admitted", "rejected"} /\ CanRun(r)
    /\ MoveTo(r, "idle")
    /\ UNCHANGED <<rnow, rvalid, invoked, dbAvailable, rateVars, trackerVars, chatVars>>

ConcInit ==
    /\ clock = 0
    /\ rateLimit = <<>>
    /\ \E endpoint \in DOMAIN rateLimits : limitArgs = rateLimits[endpoint]
    /\ calls = <<>>
    /\ rpc = [r \in Requests |-> "idle"]
    /\ rnow = [r \in Requests |-> 0]
    /\ rvalid = [r \in Requests |-> <<>>]
    /\ running = "none"
    /\ invoked = 0
    /\ dbAvailable \in BOOLEAN
    /\ TrackerIdle
    /\ ChatIdle

ConcNext ==
    \/ \E r \in Requests :
          \/ Invoke(r)
          \/ ReadWindow(r)
          \/ CheckLimit(r)
          \/ StoreWindow(r)
          \/ AfterStore(r)
          \/ UpsertSettles(r)
          \/ Complete(r)
    \/ Tick
    \/ DayPasses
    \/ Cleanup

SpecConc == ConcInit /\ [][ConcNext]_vars

Holding == {"pruned", "checked"}

\* C2: the read-prune-check-append step is atomic. At most one invocation
\* holds a window it has read and not yet written back, the window it holds
\* is the stored one, and the calls admitted for the key within one window
\* never exceed the limit, with every admitted call still within the window
\* counted in the Map.
C2_WindowUpdateAtomic ==
    /\ \A r1, r2 \in Requests :
          (rpc[r1] \in Holding /\ rpc[r2] \in Holding) => r1 = r2
    /\ \A r \in Requests :
          rpc[r] \in Holding =>
             /\ has(rateLimit, ClientKey)
             /\ rvalid[r] = validTimestamps(rateLimit[ClientKey], rnow[r], limitArgs.windowMs)
    /\ \A i \in 1..Len(calls) :
          Cardinality(AdmittedWithin(Len(calls), calls[i].time)) <= limitArgs.requests
    /\ \A i \in 1..Len(calls) :
          (calls[i].admitted /\ clock - calls[i].time < limitArgs.windowMs) =>
             /\ has(rateLimit, ClientKey)
             /\ \E k \in 1..Len(rateLimit[ClientKey]) :
                   rateLimit[ClientKey][k] = calls[i].time

C2_Witness ==
    /\ \E r1, r2 \in Requests :
          /\ rpc[r1] = "awaiting"
          /\ rpc[r2] = "rejected"
          /\ calls[Len(calls)] = Decision(rnow[r1], FALSE)
    /\ Cardinality(AdmittedWithin(Len(calls), clock)) = limitArgs.requests

-----------------------------------------------------------------------------
(* process-chat.cjs: one handler for two services, with a best-effort save. *)

WhiteSpace == {" ", "\t", "\n"}

\* String.prototype.trim
RECURSIVE trimStart(_)
trimStart(s) ==
    IF Len(s) > 0 /\ SubSeq(s, 1, 1) \in WhiteSpace
    THEN trimStart(SubSeq(s, 2, Len(s))) ELSE s

RECURSIVE trimEnd(_)
trimEnd(s) ==
    IF Len(s) > 0 /\ SubSeq(s, Len(s), Len(s)) \in WhiteSpace
    THEN trimEnd(SubSeq(s, 1, Len(s) - 1)) ELSE s

trim(s) == trimEnd(trimStart(s))

\* s.slice(0, n) of a string
sliceString(s, n) == IF Len(s) <= n THEN s ELSE SubSeq(s, 1, n)

\* seq.slice(-n): the last n elements
sliceLast(seq, n) ==
    IF Len(seq) <= n THEN seq ELSE SubSeq(seq, Len(seq) - n + 1, Len(seq))

\* String(v), for the values a message carries as its content
String(v) ==
    CASE v.t = "str"  -> v.s
      [] v.t = "num"  -> IF v.n = 100 THEN "1" ELSE IF v.n = 0 THEN "0" ELSE "42"
      [] v.t = "bool" -> IF v.b THEN "true" ELSE "false"
      [] v.t = "arr"  -> IF Len(v.a) = 0 THEN "" ELSE "[object Object]"
      [] v.t = "null" -> "null"
      [] v.t = "undefined" -> "undefined"
      [] OTHER        -> "[object Object]"

\* typeof m === 'object' (null and arrays included)
IsObjectType(v) == v.t \in {"obj", "arr", "null"}

MaxSanitizedContent == 6000
MaxHistory == 20

\* m => m && typeof m === 'object' && m.content
keepsMessage(m) == Truthy(m) /\ IsObjectType(m) /\ Truthy(Get(m, "content"))

cleanMessage(m) ==
    [role |-> IF Get(m, "role") = Str("assistant") THEN "assistant" ELSE "user",
     content |-> trim(sliceString(String(Get(m, "content")), MaxSanitizedContent))]

sanitizeMessages(input) ==
    IF input.t # "arr" THEN <<>>
    ELSE LET kept == SelectSeq(input.a, keepsMessage)
             mapped == [i \in 1..Len(kept) |-> cleanMessage(kept[i])]
         IN  sliceLast(mapped, MaxHistory)

\* normalizeServiceType
normalizeServiceType(v) ==
    IF v.t # "str" THEN "personality"
    ELSE LET st == toLowerCase(trim(v.s))
         IN  IF st \in {"conflict", "personality"} THEN st ELSE "personality"

\* v ?? d
Coalesce(v, d) == IF v.t \in {"undefined", "null"} THEN d ELSE v

\* The conflict service unwraps an object the model returned instead of
\* text: the parts that are truthy, joined, or the object pretty-printed.
unwrapParts(j) ==
    LET steps == IF Get(j, "next_steps").t = "arr"
                 THEN (IF Len(Get(j, "next_steps").a) = 0 THEN Str("")
                       ELSE [t |-> "numbered", of |-> Get(j, "next_steps")])
                 ELSE Null
        parts == <<Get(j, "one_liner"), Get(j, "reasoning"), steps, Get(j, "summary")>>
        kept == SelectSeq(parts, Truthy)
    IN  IF Len(kept) > 0 THEN [t |-> "joined", parts |-> kept]
        ELSE Text(FALSE, FALSE, j)

\* callOpenAI({ messages, serviceType, model }) of process-chat.cjs, given
\* what the fetch ends with: [threw |-> TRUE, error] or [threw |-> FALSE, value].
callOpenAI(apiKey, res, serviceType) ==
    IF ~apiKey THEN [threw |-> TRUE, error |-> "OPENAI_API_KEY is not set."]
    ELSE IF res.kind = "network_error" THEN [threw |-> TRUE, error |-> "fetch failed"]
    ELSE IF ~res.ok THEN [threw |-> TRUE, error |-> "OpenAI error"]
    ELSE IF JsonParse(res.body).t = "thrown" THEN [threw |-> TRUE, error |-> "SyntaxError"]
    ELSE
      LET data == JsonParse(res.body)
          aiContent == Coalesce(OptGet(OptGet(First(OptGet(data, "choices")),
                                              "message"), "content"), Str(""))
      IN  IF serviceType = "personality" THEN
              IF aiContent.t = "text" /\ JsonParse(aiContent).t # "thrown"
              THEN [threw |-> FALSE, value |-> aiContent]
              ELSE IF aiContent.t \in {"num", "bool"}
              THEN [threw |-> TRUE, error |-> "TypeError"]
              ELSE [threw |-> TRUE,
                    error |-> "Model returned non-JSON for personality service."]
          ELSE IF ~Truthy(aiContent) THEN [threw |-> FALSE, value |-> Str("")]
          ELSE IF aiContent.t = "str" THEN [threw |-> FALSE, value |-> Str(trim(aiContent.s))]
          ELSE IF aiContent.t # "text" THEN [threw |-> TRUE, error |-> "TypeError"]
          ELSE IF ~aiContent.fenced /\ ~aiContent.prose /\ aiContent.json.t = "obj"
          THEN [threw |-> FALSE, value |-> unwrapParts(aiContent.json)]
          ELSE [threw |-> FALSE, value |-> aiContent]

LocalId == [from |-> "local"]
StoredId == [from |-> "store"]

\* saveConversation of process-chat.cjs, given what its fetch ends with.
\* The fetch is awaited outside any try: a rejected fetch rejects the save.
saveConversationCjs(configured, res, conversation_id) ==
    IF ~configured THEN [threw |-> FALSE, saved |-> FALSE, id |-> conversation_id]
    ELSE IF res.kind = "network_error" THEN [threw |-> TRUE, error |-> "fetch failed"]
    ELSE IF ~res.ok THEN [threw |-> FALSE, saved |-> FALSE, id |-> conversation_id]
    ELSE LET data == IF JsonParse(res.body).t = "thrown" THEN Arr(<<>>)
                     ELSE JsonParse(res.body)
             stored == OptGet(First(data), "conversation_id")
         IN  [threw |-> FALSE, saved |-> TRUE,
              id |-> IF Truthy(stored) THEN StoredId ELSE conversation_id]

\* n copies of s in a row
RECURSIVE Copies(_, _)
Copies(s, n) ==
    IF n = 0 THEN ""
    ELSE IF n % 2 = 0 THEN LET half == Copies(s, n \div 2) IN half \o half
    ELSE s \o Copies(s, n - 1)

Message(role, content) == Obj([role |-> role, content |-> content])

\* body.messages as clients may send it
CjsMessageLists ==
    {Undefined,
     Str("hi"),
     Arr(<<>>),
     Arr(<<Message(Str("user"), Str("hi"))>>),
     Arr(<<Message(Str("system"), Str("  We argued about chores.  ")),
           Message(Str("assistant"), Str("What happened next?")),
           Null, Str("text"), Message(Str("user"), Str(""))>>),
     Arr(<<Message(Str("user"), Str(" \n "))>>),
     Arr(<<Obj([content |-> Num(4200)])>>),
     Arr(<<Message(Str("user"), Str(Copies("x", MaxSanitizedContent + 1)))>>),
     Arr([i \in 1..(MaxHistory + 1) |->
             Message(Str(IF i % 2 = 1 THEN "user" ELSE "assistant"), Str("turn"))])}

CjsBodies ==
    {[kind |-> "malformed"], [kind |-> "json", value |-> EmptyObject]}
    \cup {[kind |-> "json", value |-> Obj([messages |-> m])] : m \in CjsMessageLists}
    \cup {[kind |-> "json",
           value |-> Obj([service_type |-> Str(" Conflict"),
                          messages |-> Arr(<<Message(Str("user"), Str("We argued."))>>)])]}

CjsEvents ==
    [httpMethod : {"POST", "OPTIONS", "GET"},
     originsConfigured : BOOLEAN, originListed : BOOLEAN,
     apiKey : BOOLEAN, storeConfigured : BOOLEAN,
     body : CjsBodies]

\* What the fetch of callOpenAI may end with.
CjsModelResponses ==
    {[kind |-> "network_error"], HttpError(500),
     HttpOk(Text(FALSE, FALSE, NotJson)),
     HttpOk(Text(FALSE, FALSE, Envelope(Undefined))),
     HttpOk(Text(FALSE, FALSE, Envelope(Num(500)))),
     HttpOk(Text(FALSE, FALSE, Envelope(Str(" I hear you. ")))),
     HttpOk(Text(FALSE, FALSE, Envelope(Text(FALSE, FALSE, QuestionReply)))),
     HttpOk(Text(FALSE, FALSE, Envelope(Text(FALSE, FALSE, EmptyObject)))),
     HttpOk(Text(FALSE, FALSE, Envelope(Text(TRUE, FALSE, QuestionReply))))}

\* What the fetch of saveConversation may end with.
CjsStoreResponses ==
    {[kind |-> "network_error"], HttpError(500),
     HttpOk(Text(FALSE, FALSE, NotJson)),
     HttpOk(Text(FALSE, FALSE, Arr(<<>>))),
     HttpOk(Text(FALSE, FALSE, Arr(<<Obj([conversation_id |-> Str("row-1")])>>)))}

\* corsOrigin is null: origins are configured and this one is not listed
OriginRefused(e) == e.originsConfigured /\ ~e.originListed

CjsServiceType(e) ==
    normalizeServiceType(Coalesce(Get(e.body.value, "service_type"), Str("personality")))

CjsIdle ==
    /\ analysis = NoAnalysis
    /\ modelIndex = 0
    /\ inFlight = {}
    /\ RateIdle
    /\ ConcIdle

CjsInit ==
    /\ event \in CjsEvents
    /\ hpc = "received"
    /\ messages = <<>>
    /\ attempts = <<>>
    /\ reply = NoReply
    /\ response = NoResponse
    /\ CjsIdle

CjsError(status, error) ==
    [statusCode |-> status, body |-> [kind |-> "error", error |-> error]]

\* The checks of the handler before the model is called, in their order.
CjsRejection(e) ==
    IF e.httpMethod = "OPTIONS" THEN [statusCode |-> 204, body |-> [kind |-> "empty"]]
    ELSE IF OriginRefused(e) THEN CjsError(403, "Origin not allowed")
    ELSE IF e.httpMethod # "POST" THEN CjsError(405, "Method not allowed")
    ELSE IF e.body.kind = "malformed" THEN CjsError(400, "Invalid JSON body")
    ELSE IF Len(sanitizeMessages(Get(e.body.value, "messages"))) = 0
    THEN CjsError(400, "messages[] required")
    ELSE NoResponse

CjsReject ==
    /\ hpc = "received"
    /\ CjsRejection(event) # NoResponse
    /\ Respond(CjsRejection(event))
    /\ UNCHANGED <<messages, analysis, event, modelIndex, inFlight, attempts, reply,
                   rateVars, concVars>>

\* messages = sanitizeMessages(body.messages); await callOpenAI(...)
CjsCallModel ==
    /\ hpc = "received"
    /\ CjsRejection(event) = NoResponse
    /\ messages' = sanitizeMessages(Get(event.body.value, "messages"))
    /\ hpc' = "calling"
    /\ UNCHANGED <<analysis, event, modelIndex, inFlight, attempts, reply, response,
                   rateVars, concVars>>

\* catch (err): 500 with the message and the conversation id
CjsFailure(message) ==
    [statusCode |-> 500,
     body |-> [kind |-> "error", error |-> message, conversation_id |-> LocalId]]

\* callOpenAI returns or throws.
CjsModelEnds(res) ==
    /\ hpc = "calling"
    /\ LET out == callOpenAI(event.apiKey, res, CjsServiceType(event))
       IN  /\ attempts' = Append(attempts, [call |-> "callOpenAI", threw |-> out.threw])
           /\ IF out.threw
              THEN /\ Respond(CjsFailure(out.error))
                   /\ reply' = reply
              ELSE /\ reply' = out.value
                   /\ hpc' = "saving"
                   /\ response' = response
    /\ UNCHANGED <<messages, analysis, event, modelIndex, inFlight, rateVars, concVars>>

\* await saveConversation(...), then the 200; a rejected save reaches the catch.
CjsSaveEnds(res) ==
    /\ hpc = "saving"
    /\ LET out == saveConversationCjs(event.storeConfigured, res, LocalId)
       IN  /\ attempts' = Append(attempts,
                                 [call |-> "saveConversation", threw |-> out.threw,
                                  saved |-> ~out.threw /\ out.saved])
           /\ IF out.threw
              THEN Respond(CjsFailure(out.error))
              ELSE Respond([statusCode |-> 200,
                            body |-> [kind |-> "reply", reply |-> reply,
                                      conversation_id |-> LocalId]])
    /\ UNCHANGED <<messages, analysis, event, modelIndex, inFlight, reply, rateVars, concVars>>

CjsNext ==
    \/ CjsReject
    \/ CjsCallModel
    \/ \E res \in CjsModelResponses : CjsModelEnds(res)
    \/ \E res \in CjsStoreResponses : CjsSaveEnds(res)

SpecProcessCjs == CjsInit /\ [][CjsNext]_vars

\* The save has been attempted and did not store the conversation.
SaveFailed ==
    /\ Len(attempts) = 2
    /\ attempts[2].call = "saveConversation"
    /\ ~attempts[2].saved

\* C11: whatever becomes of the save, a request whose reply the model has
\* produced is answered 200 with that reply and a conversation id; when the
\* save failed the id is the locally generated one.
C11_SaveFailureKeepsOutcome ==
    (hpc = "responded" /\ reply # NoReply) =>
        /\ response.statusCode = 200
        /\ response.body.kind = "reply"
        /\ response.body.reply = reply
        /\ SaveFailed => response.body.conversation_id = LocalId

-----------------------------------------------------------------------------
(* Termination of the provider chain of process-chat.js.  Every step the   *)
(* code takes by itself is taken sooner or later; when a provider answers, *)
(* and whether it answers at all, is up to the provider.  The fetch of     *)
(* tryModelsInOrder is given no signal and no timer, so the code has no    *)
(* step that ends a call the provider leaves open.                         *)

\* The steps of the loop that the code takes by itself: starting the call of
\* the model it is at, and leaving the loop when the list has run out.
ChainCodeSteps == StartCall \/ ChainExhausted

SpecChatLive == ChatInit /\ [][ChatNext]_vars /\ WF_vars(ChainCodeSteps)

\* C12: every call of tryModelsInOrder eventually returns a reply, even
\* when a provider accepts the request and never responds.
C12_ChainEventuallyReturns == (hpc = "chain") ~> Returned

-----------------------------------------------------------------------------
(* Validation and sanitization of SecurityManager (shared-utils).          *)

maxMessageLength == 2000
maxMessagesPerConversation == 50
minMessageLength == 1

Min(S) == CHOOSE x \in S : \A y \in S : x <= y

\* the positions at which the text k occurs in s, letter case ignored
Occurrences(s, k) ==
    {i \in 1..(Len(s) - Len(k) + 1) : toLowerCase(SubSeq(s, i, i + Len(k) - 1)) = k}

\* /k/i.test(s)
testIgnoreCase(s, k) == Occurrences(s, k) # {}

WordChars ==
    {LowerChars[i] : i \in 1..Len(LowerChars)} \cup {UpperChars[i] : i \in 1..Len(UpperChars)}
    \cup {"0", "1", "2", "3", "4", "5", "6", "7", "8", "9", "_"}

\* the first position from i on whose character is not in chars
RunEnd(s, i, chars) ==
    Min({j \in i..(Len(s) + 1) : j = Len(s) + 1 \/ SubSeq(s, j, j) \notin chars})

\* the end of a match of /on\w+\s*=/i that starts at i, or 0; with
\* spaced = FALSE, of /on\w+=/i
EventHandlerEnd(s, i, spaced) ==
    IF i + 1 > Len(s) \/ toLowerCase(SubSeq(s, i, i + 1)) # "on" THEN 0
    ELSE LET w == RunEnd(s, i + 2, WordChars)
             e == IF spaced THEN RunEnd(s, w, WhiteSpace) ELSE w
         IN  IF w > i + 2 /\ e <= Len(s) /\ SubSeq(s, e, e) = "=" THEN e ELSE 0

suspiciousPatterns ==
    <<"<script", "javascript:", "data:text/html", "vbscript:", "document.cookie",
      "localstorage", "sessionstorage", "eval(", "function(">>

containsSuspiciousContent(content) ==
    \/ \E p \in 1..Len(suspiciousPatterns) : testIgnoreCase(content, suspiciousPatterns[p])
    \/ \E i \in 1..Len(content) : EventHandlerEnd(content, i, TRUE) # 0

\* Variant: the length ceiling applied one character early.
messageErrorEarly(msg) ==
    IF ~Truthy(msg) \/ ~IsObjectType(msg) THEN "invalid_message_object"
    ELSE IF Get(msg, "role") \notin {Str("user"), Str("assistant")} THEN "invalid_role"
    ELSE IF Get(msg, "content").t # "str" THEN "invalid_content_type"
    ELSE IF Len(Get(msg, "content").s) >= maxMessageLength THEN "message_too_long"
    ELSE IF Len(trim(Get(msg, "content").s)) < minMessageLength THEN "message_too_short"
    ELSE IF containsSuspiciousContent(Get(msg, "content").s) THEN "suspicious_content"
    ELSE "ok"

\* The first rule a message breaks, in the order of the loop body, or "ok".
messageError(msg) ==
    IF ~Truthy(msg) \/ ~IsObjectType(msg) THEN "invalid_message_object"
    ELSE IF Get(msg, "role") \notin {Str("user"), Str("assistant")} THEN "invalid_role"
    ELSE IF Get(msg, "content").t # "str" THEN "invalid_content_type"
    ELSE IF Len(Get(msg, "content").s) > maxMessageLength THEN "message_too_long"
    ELSE IF Len(trim(Get(msg, "content").s)) < minMessageLength THEN "message_too_short"
    ELSE IF containsSuspiciousContent(Get(msg, "content").s) THEN "suspicious_content"
    ELSE "ok"

\* The loop of validateMessages from message i on: the verdict, what
\* logValidationError was called with, and how many messages were looked at.
RECURSIVE validateFrom(_, _)
validateFrom(list, i) ==
    IF i > Len(list) THEN [valid |-> TRUE, logged |-> <<>>, inspected |-> Len(list)]
    ELSE IF messageError(list[i]) # "ok"
    THEN [valid |-> FALSE, logged |-> <<messageError(list[i])>>, inspected |-> i]
    ELSE validateFrom(list, i + 1)

validateMessages(msgs) ==
    IF msgs.t # "arr"
    THEN [valid |-> FALSE, logged |-> <<"messages_not_array">>, inspected |-> 0]
    ELSE IF Len(msgs.a) = 0
    THEN [valid |-> FALSE, logged |-> <<"messages_empty">>, inspected |-> 0]
    ELSE IF Len(msgs.a) > maxMessagesPerConversation
    THEN [valid |-> FALSE, logged |-> <<"messages_too_many">>, inspected |-> 0]
    ELSE validateFrom(msgs.a, 1)

\* s.replace(/k/gi, ''): every occurrence, left to right, none overlapping
RECURSIVE removeAll(_, _)
removeAll(s, k) ==
    IF Occurrences(s, k) = {} THEN s
    ELSE LET i == Min(Occurrences(s, k))
         IN  SubSeq(s, 1, i - 1) \o removeAll(SubSeq(s, i + Len(k), Len(s)), k)

\* s.replace(/on\w+=/gi, '')
RECURSIVE removeEventHandlers(_)
removeEventHandlers(s) ==
    LET starts == {i \in 1..Len(s) : EventHandlerEnd(s, i, FALSE) # 0}
    IN  IF starts = {} THEN s
        ELSE LET i == Min(starts)
             IN  SubSeq(s, 1, i - 1)
                 \o removeEventHandlers(SubSeq(s, EventHandlerEnd(s, i, FALSE) + 1, Len(s)))

\* sanitizeInput(input, maxLength): '' for what is no string
sanitizeInput(input, maxLength) ==
    IF input.t # "str" THEN ""
    ELSE removeEventHandlers(
           removeAll(removeAll(removeAll(removeAll(removeAll(
             sliceString(trim(input.s), maxLength), "<"), ">"),
             "javascript:"), "data:"), "vbscript:"))

-----------------------------------------------------------------------------
\* The handlers of conflict-chat.cjs and of the personality chat: one request
\* from its arrival to its response.  limitArgs tells the two handlers apart
\* (5 and 10 requests a minute); earlier requests of the same client have
\* gone through checkRateLimit before this one arrives.

maxRequestSize == 1048576
allowedOrigins == <<"http://localhost:3000", "http://localhost:8080">>

\* validateOrigin(origin)
validateOrigin(origin, development) ==
    IF origin = "" THEN FALSE
    ELSE IF development /\ (includes(origin, "localhost") \/ includes(origin, "127.0.0.1"))
    THEN TRUE
    ELSE \E i \in 1..Len(allowedOrigins) : allowedOrigins[i] = origin

\* The body of checkRateLimit as a function of the map and the instant.
checkRateLimitCall(map, now, args) ==
    LET created == IF has(map, ClientKey) THEN map ELSE set(map, ClientKey, <<>>)
        valid == validTimestamps(created[ClientKey], now, args.windowMs)
    IN  IF limitExceeded(Len(valid), args.requests)
        THEN [admitted |-> FALSE, map |-> created]
        ELSE [admitted |-> TRUE, map |-> set(created, ClientKey, Append(valid, now))]

\* event.body || '{}', parsed
GateBody(e) ==
    IF e.body.kind = "empty" THEN [kind |-> "json", value |-> EmptyObject] ELSE e.body

GateError(status, error) ==
    [statusCode |-> status, body |-> [kind |-> "error", error |-> error]]

\* messages.map(msg => ({ role: msg.role, content: sanitizeInput(msg.content, ...) }))
sanitizedMessages(list) ==
    [i \in 1..Len(list) |->
        [role |-> Get(list[i], "role").s,
         content |-> sanitizeInput(Get(list[i], "content"), maxMessageLength)]]

Called(name, outcome) == [call |-> name, outcome |-> outcome]

\* The handler from its entry to the first of its returns or to the call of
\* the provider: the response (NoResponse when the provider is called next)
\* and the calls made on the way, in their order.
GateEntry(e, limiter) ==
    IF e.httpMethod = "OPTIONS"
    THEN [response |-> [statusCode |-> 204, body |-> [kind |-> "empty"]], log |-> <<>>]
    ELSE IF e.httpMethod # "POST"
    THEN [response |-> GateError(405, "Method not allowed"), log |-> <<>>]
    ELSE IF ~validateOrigin(e.origin, e.development)
    THEN [response |-> GateError(403, "Origin not allowed"), log |-> <<>>]
    ELSE IF ~limiter.admitted
    THEN [response |-> GateError(429, "Too many requests. Please try again in a minute."),
          log |-> <<Called("checkRateLimit", FALSE)>>]
    ELSE IF e.bodyBytes > maxRequestSize
    THEN [response |-> GateError(413, "Request too large"),
          log |-> <<Called("checkRateLimit", TRUE)>>]
    ELSE IF GateBody(e).kind = "malformed"
    THEN [response |-> GateError(400, "Invalid JSON format"),
          log |-> <<Called("checkRateLimit", TRUE)>>]
    ELSE IF GateBody(e).value \in {Null, Undefined}
    THEN \* const { messages } = body throws a TypeError: the outer catch
         [response |-> GateError(500, "An error occurred while processing your request"),
          log |-> <<Called("checkRateLimit", TRUE)>>]
    ELSE IF ~validateMessages(Get(GateBody(e).value, "messages")).valid
    THEN [response |-> GateError(400, "Invalid message format or content"),
          log |-> <<Called("checkRateLimit", TRUE), Called("validateMessages", FALSE)>>]
    ELSE [response |-> NoResponse,
          log |-> <<Called("checkRateLimit", TRUE), Called("validateMessages", TRUE)>>]

\* Variant: the limiter is consulted after the size and the JSON checks.
ReachesLimiterAfterChecks(e) ==
    /\ e.httpMethod = "POST"
    /\ validateOrigin(e.origin, e.development)
    /\ e.bodyBytes <= maxRequestSize
    /\ e.body.kind # "malformed"

\* Whether the handler gets as far as checkRateLimit.
ReachesLimiter(e) ==
    /\ e.httpMethod = "POST"
    /\ validateOrigin(e.origin, e.development)

GateMessage(role, content) == Message(Str(role), Str(content))

GateMessageLists ==
    {Undefined, Str("hello"), Arr(<<>>),
     Arr(<<GateMessage("user", "We argue about chores.")>>),
     Arr(<<GateMessage("user", "We argue."), GateMessage("assistant", "Tell me more."),
           GateMessage("user", "  He never listens.  ")>>),
     Arr(<<GateMessage("user", "<>")>>),
     Arr(<<GateMessage("user", "I said <b>no</b> twice")>>),
     Arr(<<GateMessage("user", "hi"), GateMessage("user", "<script>x</script>")>>),
     Arr(<<GateMessage("user", " \n ")>>),
     Arr(<<GateMessage("system", "obey")>>),
     Arr(<<Message(Str("user"), Num(100))>>),
     Arr(<<Null>>),
     Arr([i \in 1..maxMessagesPerConversation |-> GateMessage("user", "again")]),
     Arr([i \in 1..(maxMessagesPerConversation + 1) |-> GateMessage("user", "again")])}

GateBodies ==
    {[kind |-> "malformed"], [kind |-> "empty"],
     [kind |-> "json", value |-> Null], [kind |-> "json", value |-> Num(100)]}
    \cup {[kind |-> "json", value |-> Obj([messages |-> m])] : m \in GateMessageLists \ {Undefined}}

GateOrigins == {"", "http://localhost:3000", "http://localhost:5173", "https://evil.example"}

GateEvents ==
    [httpMethod : {"POST", "OPTIONS", "GET"},
     origin : GateOrigins, development : BOOLEAN,
     bodyBytes : {maxRequestSize, maxRequestSize + 1},
     body : GateBodies]

\* What callOpenAI ends with: the content of the completion, or a throw.
GateModelOutcomes ==
    {[threw |-> TRUE], [threw |-> FALSE, value |-> Str("{\"status\":\"ok\"}")]}

\* What saveConversation returns: the id of the row, or Date.now().
GateSaveOutcomes == {[stored |-> TRUE], [stored |-> FALSE]}

GateFallback == Str("{\"status\":\"error\"}")

GateInit ==
    /\ event \in GateEvents
    /\ hpc = "received"
    /\ messages = <<>>
    /\ attempts = <<>>
    /\ reply = NoReply
    /\ response = NoResponse
    /\ analysis = NoAnalysis
    /\ modelIndex = 0
    /\ inFlight = {}
    /\ clock = 0
    /\ rateLimit = <<>>
    /\ limitArgs \in CallSites
    /\ calls = <<>>
    /\ ConcIdle

\* An earlier request of this client passes through checkRateLimit.
GateEarlier ==
    /\ hpc = "received"
    /\ checkRateLimit

\* The handler runs up to its return or up to await callOpenAI(...).
GateAdmit ==
    /\ hpc = "received"
    /\ LET limiter == checkRateLimitCall(rateLimit, clock, limitArgs)
           entry == GateEntry(event, limiter)
       IN  /\ rateLimit' = IF ReachesLimiter(event) THEN limiter.map ELSE rateLimit
           /\ attempts' = entry.log
           /\ IF entry.response # NoResponse
              THEN /\ Respond(entry.response)
                   /\ messages' = messages
              ELSE /\ messages' = sanitizedMessages(Get(GateBody(event).value, "messages").a)
                   /\ hpc' = "calling"
                   /\ response' = response
    /\ UNCHANGED <<analysis, event, modelIndex, inFlight, reply, clock, limitArgs, calls,
                   concVars>>

\* callOpenAI returns, or throws and the fallback text takes its place.
GateModelEnds(out) ==
    /\ hpc = "calling"
    /\ attempts' = Append(attempts, Called("callOpenAI", ~out.threw))
    /\ reply' = IF out.threw THEN GateFallback ELSE out.value
    /\ hpc' = "saving"
    /\ UNCHANGED <<messages, analysis, event, modelIndex, inFlight, response, rateVars,
                   concVars>>

\* saveConversation returns an id either way, then the 200.
GateSaveEnds(out) ==
    /\ hpc = "saving"
    /\ attempts' = Append(attempts, Called("saveConversation", out.stored))
    /\ Respond([statusCode |-> 200,
                body |-> [kind |-> "reply", reply |-> reply,
                          conversation_id |-> IF out.stored THEN StoredId ELSE LocalId]])
    /\ UNCHANGED <<messages, analysis, event, modelIndex, inFlight, reply, rateVars, concVars>>

GateNext ==
    \/ GateEarlier
    \/ GateAdmit
    \/ \E out \in GateModelOutcomes : GateModelEnds(out)
    \/ \E out \in GateSaveOutcomes : GateSaveEnds(out)

SpecGate == GateInit /\ [][GateNext]_vars

\* The limiter has room for this request: fewer earlier requests of the
\* window were admitted than the handler allows.
RateAdmits ==
    Cardinality({i \in 1..Len(calls) : calls[i].admitted /\ clock - calls[i].time < limitArgs.windowMs})
        < limitArgs.requests

\* The status that answers the first admission check the request fails, in
\* the order method, origin, rate limit, size, JSON, validateMessages; 0 when
\* it passes them all.
FirstFailedCheck(e) ==
    IF e.httpMethod # "POST" THEN 405
    ELSE IF ~validateOrigin(e.origin, e.development) THEN 403
    ELSE IF ~RateAdmits THEN 429
    ELSE IF e.bodyBytes > maxRequestSize THEN 413
    ELSE IF GateBody(e).kind = "malformed" THEN 400
    ELSE IF ~validateMessages(Get(GateBody(e).value, "messages")).valid THEN 400
    ELSE 0

ExternalCalls ==
    {i \in 1..Len(attempts) : attempts[i].call \in {"callOpenAI", "saveConversation"}}

\* C13: the provider and the store are called only for a request that passes
\* every admission check (POST, allowed origin, rate limit, size, JSON,
\* validateMessages); a request other than the preflight that fails one is
\* answered with the 4xx status of the first check it fails and an error
\* body, and no provider or store call is made for it.
C13_AdmissionBeforeCalls ==
    /\ ExternalCalls # {} => FirstFailedCheck(event) = 0
    /\ (hpc = "responded" /\ event.httpMethod # "OPTIONS" /\ FirstFailedCheck(event) # 0) =>
           /\ response.statusCode = FirstFailedCheck(event)
           /\ response.body.kind = "error"
           /\ ExternalCalls = {}

\* The same with the requests set aside whose body is the JSON text null.
C13_ExceptNullBody ==
    \/ (GateBody(event).kind = "json" /\ GateBody(event).value = Null)
    \/ C13_AdmissionBeforeCalls

-----------------------------------------------------------------------------
\* validateMessages as a function: one call on one input.

MaxListLen == 2

ValidatePool ==
    {GateMessage("user", "hi"), GateMessage("assistant", "ok then"),
     GateMessage("user", "on = 3"),
     Null, Str("hi"), Arr(<<>>),
     Obj([role |-> Str("system"), content |-> Num(100)]),
     Obj([role |-> Str("user"), content |-> Num(100)]),
     Obj([role |-> Str("user")]),
     GateMessage("user", "  "), GateMessage("user", ""),
     GateMessage("user", "onClick = go"), GateMessage("user", "see document.cookie")}

ValidateInputs ==
    {Arr(list) : list \in UNION {[1..n -> ValidatePool] : n \in 0..MaxListLen}}
    \cup {Undefined, Null, Str("hi"), EmptyObject,
          Arr(<<GateMessage("user", Copies("x", maxMessageLength))>>),
          Arr(<<GateMessage("user", Copies("x", maxMessageLength + 1))>>),
          Arr(<<GateMessage("user", "<script>" \o Copies("x", maxMessageLength))>>),
          Arr([i \in 1..maxMessagesPerConversation |-> GateMessage("user", "again")]),
          Arr([i \in 1..maxMessagesPerConversation |->
                  IF i < maxMessagesPerConversation THEN GateMessage("user", "again")
                  ELSE GateMessage("user", " ")]),
          Arr([i \in 1..(maxMessagesPerConversation + 1) |-> GateMessage("user", "again")])}

ValidateInit ==
    /\ event \in {[input |-> v] : v \in ValidateInputs}
    /\ hpc = "received"
    /\ response = NoResponse
    /\ messages = <<>>
    /\ analysis = NoAnalysis
    /\ modelIndex = 0
    /\ inFlight = {}
    /\ attempts = <<>>
    /\ reply = NoReply
    /\ RateIdle
    /\ ConcIdle

\* securityManager.validateMessages(messages)
ValidateCall ==
    /\ hpc = "received"
    /\ Respond(validateMessages(event.input))
    /\ UNCHANGED <<messages, analysis, event, modelIndex, inFlight, attempts, reply,
                   rateVars, concVars>>

SpecValidate == ValidateInit /\ [][ValidateCall]_vars

\* The rules of the claim, each stated on its own; a rule about the content
\* is not broken by a message that has no string content.
RuleOrder ==
    <<"invalid_message_object", "invalid_role", "invalid_content_type",
      "message_too_long", "message_too_short", "suspicious_content">>

HasStringContent(m) == m.t = "obj" /\ Get(m, "content").t = "str"

Breaks(m, rule) ==
    CASE rule = "invalid_message_object" -> m.t \notin {"obj", "arr"}
      [] rule = "invalid_role" -> Get(m, "role") \notin {Str("user"), Str("assistant")}
      [] rule = "invalid_content_type" -> Get(m, "content").t # "str"
      [] rule = "message_too_long" ->
            HasStringContent(m) /\ Len(Get(m, "content").s) > 2000
      [] rule = "message_too_short" ->
            HasStringContent(m) /\ Len(trim(Get(m, "content").s)) < 1
      [] rule = "suspicious_content" ->
            HasStringContent(m) /\ containsSuspiciousContent(Get(m, "content").s)

WellFormed(m) == \A r \in 1..Len(RuleOrder) : ~Breaks(m, RuleOrder[r])

FirstBroken(m) == RuleOrder[Min({r \in 1..Len(RuleOrder) : Breaks(m, RuleOrder[r])})]

AcceptableList(v) ==
    /\ v.t = "arr"
    /\ Len(v.a) >= 1
    /\ Len(v.a) <= 50
    /\ \A i \in 1..Len(v.a) : WellFormed(v.a[i])

\* C14: validateMessages returns true exactly for a list of 1 to 50 entries
\* that are all objects with role user or assistant and a string content of
\* at most 2000 characters, at least 1 after trimming, matching no denylist
\* pattern; otherwise it logs one validation error, and when a message is at
\* fault it stops at the first such message and names the first rule, in the
\* fixed order, that this message breaks.
C14_ValidateMessages ==
    (hpc = "responded" /\ "input" \in DOMAIN event) =>
        LET v == event.input
            bad == {i \in 1..Len(v.a) : ~WellFormed(v.a[i])}
        IN  /\ response.valid <=> AcceptableList(v)
            /\ response.valid => response.logged = <<>>
            /\ ~response.valid => Len(response.logged) = 1
            /\ (~response.valid /\ v.t = "arr" /\ Len(v.a) \in 1..50) =>
                   /\ response.inspected = Min(bad)
                   /\ response.logged = <<FirstBroken(v.a[Min(bad)])>>

\* The first message is blank and the one after it is at fault too: the
\* call stops at the first.
C14_Witness ==
    /\ hpc = "responded"
    /\ "input" \in DOMAIN event
    /\ event.input.t = "arr"
    /\ Len(event.input.a) = 2
    /\ response.valid = FALSE
    /\ response.inspected = 1
    /\ ~WellFormed(event.input.a[2])
    /\ response.logged = <<"message_too_short">>

-----------------------------------------------------------------------------
\* The Message invariant on what a handler hands to the provider and the store.

MessageInvariant(m, maxLength) ==
    /\ m.role \in {"user", "assistant"}
    /\ Len(m.content) <= maxLength
    /\ Len(trim(m.content)) >= 1

\* the handler has passed its checks and holds the list it forwards
Forwarding == hpc \in {"calling", "saving"}

\* C15: every message the conflict and personality handlers forward after
\* validateMessages and sanitizeInput has role user or assistant and a
\* content of at most maxMessageLength characters that is not empty after
\* trimming.
C15_ForwardedMessagesValid ==
    Forwarding =>
        \A i \in 1..Len(messages) : MessageInvariant(messages[i], maxMessageLength)

\* The same for the list sanitizeMessages returns in process-chat.cjs.
C15_SanitizeMessagesValid ==
    Forwarding =>
        \A i \in 1..Len(messages) : MessageInvariant(messages[i], MaxSanitizedContent)

-----------------------------------------------------------------------------
\* The quality of a dimension when the conversation moves on.

\* the message is from the user and has none of the keywords of dimension d
OffTopic(m, d) ==
    /\ IsUser(m)
    /\ \A keyword \in DimensionKeywords(d) : ~includes(toLowerCase(m.content), keyword)

\* C16: appending a user message that has none of the keywords of a covered
\* dimension leaves the quality of that dimension as it was; a dimension
\* rated good stays good.
C16_OffTopicKeepsQuality ==
    [][\A d \in Dimensions :
          (/\ Len(messages') = Len(messages) + 1
           /\ analysis.dimensions[d].covered
           /\ OffTopic(messages'[Len(messages')], d))
          => analysis'.dimensions[d].quality = analysis.dimensions[d].quality]_vars

-----------------------------------------------------------------------------
\* Clarification before new ground.

PoorDimensions(a) ==
    {d \in Dimensions : a.dimensions[d].covered /\ a.dimensions[d].quality = "poor"}

Analysed == analysis # NoAnalysis

\* C17: needsClarification() is true exactly when a covered dimension is
\* rated poor; then, the conversation not being ready, the reply has
\* validation_status clarification_needed whether a provider answered or the
\* fallback was built, and getNextQuestion returns the rephrased question of
\* a poor dimension and not the question of a missing one.
C17_ClarificationFirst ==
    /\ Analysed => (needsClarification(analysis) <=> PoorDimensions(analysis) # {})
    /\ (Returned /\ PoorDimensions(analysis) # {} /\ ~isReadyForAnalysis(analysis)) =>
           ReplyField("validation_status") = Str("clarification_needed")
    /\ (Analysed /\ PoorDimensions(analysis) # {}) =>
           /\ getNextQuestion(analysis) \in
                 {ClarifyQuestion(d) : d \in PoorDimensions(analysis)}
           /\ getNextQuestion(analysis) \notin {MissingQuestion(d) : d \in Dimensions}

\* A provider called the conversation ready although the last answer was
\* poor and three dimensions are still missing.
C17_Witness ==
    /\ hpc = "responded"
    /\ PoorDimensions(analysis) = {"extraversion_introversion"}
    /\ getMissingDimensions(analysis) # <<>>
    /\ Len(attempts) = 1 /\ Succeeded(1)
    /\ attempts[1].resp = HttpOk(Text(FALSE, FALSE, Envelope(Text(FALSE, FALSE, FinalAnswer))))
    /\ ReplyField("validation_status") = Str("clarification_needed")

-----------------------------------------------------------------------------
\* The missing dimensions and the next question.

PriorityOrder ==
    <<"extraversion_introversion", "sensing_intuition", "thinking_feeling",
      "judging_perceiving">>

IsUncovered(d) == ~analysis.dimensions[d].covered

\* the object the successful attempt parsed out of the completion
ParsedOf(resp) ==
    LET chatJson == getJsonResponse(resp).value
        content  == OptGet(Get(First(OptGet(chatJson, "choices")), "message"), "content")
    IN  IF IsString(content) THEN JsonParse(StripFences(content)) ELSE content

\* The reply was built with no missing_dimensions field from a model: by the
\* fallback, or from a completion that has no such field.
BuiltWithoutModelList ==
    /\ Returned
    /\ \/ AllFailed
       \/ /\ Succeeded(Len(attempts))
          /\ Get(ParsedOf(attempts[Len(attempts)].resp), "missing_dimensions") = Undefined

\* C18: getMissingDimensions() is the uncovered dimensions in the order
\* extraversion_introversion, sensing_intuition, thinking_feeling,
\* judging_perceiving; with no clarification needed and a dimension missing,
\* getNextQuestion asks about the first of them; a reply built without a
\* missing_dimensions field from the model carries this list.
C18_MissingInPriorityOrder ==
    Analysed =>
        LET missing == SelectSeq(PriorityOrder, IsUncovered)
        IN  /\ getMissingDimensions(analysis) = missing
            /\ (PoorDimensions(analysis) = {} /\ missing # <<>>) =>
                   getNextQuestion(analysis) = MissingQuestion(missing[1])
            /\ BuiltWithoutModelList =>
                   ReplyField("missing_dimensions") =
                       Arr([i \in 1..Len(missing) |-> Str(missing[i])])

\* Every dimension is missing and the completion names none.
C18_Witness ==
    /\ hpc = "responded"
    /\ BuiltWithoutModelList
    /\ Succeeded(Len(attempts))
    /\ PoorDimensions(analysis) = {}
    /\ getNextQuestion(analysis) = MissingQuestion("extraversion_introversion")
    /\ ReplyField("missing_dimensions") =
           Arr(<<Str("extraversion_introversion"), Str("sensing_intuition"),
                 Str("thinking_feeling"), Str("judging_perceiving")>>)

-----------------------------------------------------------------------------
\* What the coercion of tryModelsInOrder does to a value that is valid already.

\* string type, confidence in [0, 1], list-valued strengths and growth_tips,
\* string one_liner, and every field of the reply present
SatisfiesContract(v) ==
    /\ v.t = "obj"
    /\ RequiredFields \subseteq DOMAIN v.o
    /\ v.o.type.t = "str"
    /\ v.o.confidence.t = "num" /\ v.o.confidence.n >= 0 /\ v.o.confidence.n <= 100
    /\ v.o.strengths.t = "arr"
    /\ v.o.growth_tips.t = "arr"
    /\ v.o.one_liner.t = "str"

LastAttempt == attempts[Len(attempts)]

\* The text of the successful response is a code fence around a JSON value,
\* or it is the completion inside it that is.
FencedInterior(resp) ==
    IF resp.body.fenced /\ ~resp.body.prose THEN resp.body.json
    ELSE LET content == OptGet(Get(First(OptGet(resp.body.json, "choices")), "message"),
                               "content")
         IN  IF content.t = "text" /\ content.fenced /\ ~content.prose
             THEN content.json ELSE NotJson

FromFence ==
    /\ Returned
    /\ Len(attempts) > 0
    /\ Succeeded(Len(attempts))
    /\ SatisfiesContract(FencedInterior(LastAttempt.resp))

\* C19: when the text of the provider is a code fence around a JSON object
\* that satisfies the output contract, the reply for a ready conversation is
\* that object: no field dropped, altered or added.
C19_FencedObjectUnchanged ==
    (FromFence /\ isReadyForAnalysis(analysis)) =>
        reply.json = FencedInterior(LastAttempt.resp)

\* The coercion step: the result literal, the enforcement, JSON.stringify.
coerce(parsed, a) == JsonStringify(enforceValidationRules(buildResult(parsed, a), a))

ContractFields == {"type", "confidence", "strengths", "growth_tips", "one_liner"}

\* C20: for a fixed analysis the coercion returns an equivalent value when
\* it is applied to a value that satisfies the output contract already, and
\* in particular when it is applied to its own output.
C20_CoercionIdempotent ==
    (Returned /\ Len(attempts) > 0 /\ Succeeded(Len(attempts))) =>
        LET parsed == ParsedOf(LastAttempt.resp)
        IN  /\ reply = coerce(parsed, analysis)
            /\ coerce(reply.json, analysis) = reply
            /\ (SatisfiesContract(parsed) /\ isReadyForAnalysis(analysis)) =>
                   \A k \in ContractFields : reply.json.o[k] = parsed.o[k]

\* The two halves of C20, each on its own.
C20_OwnOutput ==
    (Returned /\ Len(attempts) > 0 /\ Succeeded(Len(attempts))) =>
        coerce(reply.json, analysis) = reply

C20_ValidInput ==
    (Returned /\ Len(attempts) > 0 /\ Succeeded(Len(attempts))
       /\ SatisfiesContract(ParsedOf(LastAttempt.resp)) /\ isReadyForAnalysis(analysis)) =>
        \A k \in ContractFields : reply.json.o[k] = ParsedOf(LastAttempt.resp).o[k]

-----------------------------------------------------------------------------
\* The confidence of the reply.

\* C21: every reply tryModelsInOrder returns has a numeric confidence
\* between 0 and 1 (0 and 100 hundredths), whatever the model put into the
\* confidence field.
C21_ConfidenceInRange ==
    Returned =>
        /\ ReplyField("confidence").t = "num"
        /\ ReplyField("confidence").n >= MinConfidence
        /\ ReplyField("confidence").n <= MaxConfidence

\* The same for the conversations the tracker does not call ready.
C21_NotReadyInRange ==
    (Returned /\ ~isReadyForAnalysis(analysis)) =>
        /\ ReplyField("confidence").t = "num"
        /\ ReplyField("confidence").n >= MinConfidence
        /\ ReplyField("confidence").n <= MaxConfidence

-----------------------------------------------------------------------------
\* The chain that filters the completion with isValidText, and its handler.
\* A completion is held as its text together with what JSON.parse makes of
\* that text (NotJson when it throws).

Completion(text, json) == [t |-> "str", s |-> text, json |-> json]

MinTextLength == 5
RepeatsAfterFirst == 10
LongWord == 80

\* what the dot of a regular expression does not match
LineTerminators == {"\n", "\r"}

Letters ==
    {LowerChars[i] : i \in 1..Len(LowerChars)} \cup {UpperChars[i] : i \in 1..Len(UpperChars)}

\* /(.)\1{10,}/.test(text)
hasLongRepeat(text) ==
    \E i \in 1..(Len(text) - RepeatsAfterFirst) :
        /\ SubSeq(text, i, i) \notin LineTerminators
        /\ \A j \in (i + 1)..(i + RepeatsAfterFirst) : SubSeq(text, j, j) = SubSeq(text, i, i)

\* /[A-Za-z]{80,}/.test(text)
hasLongWord(text) ==
    \E i \in 1..(Len(text) - LongWord + 1) :
        \A j \in i..(i + LongWord - 1) : SubSeq(text, j, j) \in Letters

\* Variant: the filter without its test for repeated characters.
isValidTextNoRepeatTest(content) ==
    IF ~Truthy(content) \/ content.t # "str" \/ Len(content.s) < MinTextLength THEN FALSE
    ELSE IF includes(content.s, "<!DOCTYPE") \/ includes(content.s, "<html") THEN FALSE
    ELSE IF hasLongWord(content.s) THEN FALSE
    ELSE TRUE

isValidText(content) ==
    IF ~Truthy(content) \/ content.t # "str" \/ Len(content.s) < MinTextLength THEN FALSE
    ELSE IF includes(content.s, "<!DOCTYPE") \/ includes(content.s, "<html") THEN FALSE
    ELSE IF hasLongRepeat(content.s) THEN FALSE
    ELSE IF hasLongWord(content.s) THEN FALSE
    ELSE TRUE

\* if (typeof content === 'object') content = JSON.stringify(content)
stringifyObjectContent(content) ==
    IF content.t = "null" THEN Completion("null", Null) ELSE content

\* if (!('type' in parsed)) parsed.type = 'Unknown'; ...
addMissingFields(parsed) ==
    LET defaults == [type |-> Str("Unknown"), confidence |-> Num(0),
                     strengths |-> Arr(<<>>), growth_tips |-> Arr(<<>>),
                     one_liner |-> Str("")]
    IN  Obj([k \in DOMAIN parsed.o \cup DOMAIN defaults |->
                IF k \in DOMAIN parsed.o THEN parsed.o[k] ELSE defaults[k]])

TextModels ==
    <<"anthropic/claude-3-haiku", "google/gemini-flash-1.5",
      "meta-llama/llama-3.1-8b-instruct", "deepseek/deepseek-chat">>

\* One pass of the loop body: what the fetch ended with decides whether the
\* loop returns ("success") or goes on to the next model.
TextAttempt(resp) ==
    IF resp.kind = "network_error" THEN [outcome |-> "networkError"]
    ELSE IF ~resp.ok THEN [outcome |-> "httpError"]
    ELSE IF resp.body.t = "notjson" THEN [outcome |-> "invalidOutput"]
    ELSE IF ~Truthy(First(OptGet(resp.body, "choices"))) THEN [outcome |-> "invalidOutput"]
    ELSE LET raw == OptGet(Get(First(OptGet(resp.body, "choices")), "message"), "content")
             content == stringifyObjectContent(raw)
         IN  IF ~isValidText(content) THEN [outcome |-> "invalidText"]
             ELSE IF content.json.t # "obj" THEN [outcome |-> "invalidOutput"]
             ELSE [outcome |-> "success",
                   reply |-> Text(FALSE, FALSE, addMissingFields(content.json))]

TypedAnswer(type) == Obj([type |-> Str(type)])
Quoted(type) == "{\"type\":\"" \o type \o "\"}"

TextCompletions ==
    {Undefined, Null,
     Completion("", NotJson),
     Completion("{}", EmptyObject),
     Completion("null ", Null),
     Completion("12345", Num(1234500)),
     Completion("Sorry, I cannot answer that.", NotJson),
     Completion(Quoted("INTJ"), TypedAnswer("INTJ")),
     Completion(Quoted(Copies("a", RepeatsAfterFirst)),
                TypedAnswer(Copies("a", RepeatsAfterFirst))),
     Completion(Quoted(Copies("a", RepeatsAfterFirst + 1)),
                TypedAnswer(Copies("a", RepeatsAfterFirst + 1))),
     Completion(Quoted(Copies("z", 20)), TypedAnswer(Copies("z", 20))),
     Completion(Copies("\n", RepeatsAfterFirst + 1) \o Quoted("ENFP"), TypedAnswer("ENFP")),
     Completion("<!DOCTYPE html><html><body>502</body></html>", NotJson),
     Completion(Quoted("<html>"), TypedAnswer("<html>")),
     Completion(Quoted(Copies("ab", 40)), TypedAnswer(Copies("ab", 40))),
     Completion(Quoted(Copies("ab", 39) \o "a"), TypedAnswer(Copies("ab", 39) \o "a"))}

TextResponses ==
    {[kind |-> "network_error"],
     [kind |-> "http", ok |-> FALSE, status |-> 500, body |-> NotJson],
     [kind |-> "http", ok |-> TRUE, status |-> 200, body |-> NotJson],
     [kind |-> "http", ok |-> TRUE, status |-> 200, body |-> EmptyObject]}
    \cup {[kind |-> "http", ok |-> TRUE, status |-> 200, body |-> Envelope(c)] :
             c \in TextCompletions}

TextBodies ==
    {[kind |-> "malformed"], [kind |-> "json", value |-> EmptyObject],
     [kind |-> "json", value |-> Obj([messages |-> Arr(<<>>)])],
     [kind |-> "json", value |-> Obj([messages |-> Arr(<<GateMessage("user", "hi")>>)])]}

TextEvents == [httpMethod : {"POST", "OPTIONS", "GET"}, body : TextBodies]

TextInit ==
    /\ event \in TextEvents
    /\ hpc = "received"
    /\ messages = <<>>
    /\ attempts = <<>>
    /\ reply = NoReply
    /\ response = NoResponse
    /\ analysis = NoAnalysis
    /\ modelIndex = 0
    /\ inFlight = {}
    /\ RateIdle
    /\ ConcIdle

\* The returns of the handler before the chain is entered; the JSON.parse of
\* a malformed body throws inside the try.
TextRejection(e) ==
    IF e.httpMethod = "OPTIONS" THEN [statusCode |-> 200, body |-> [kind |-> "empty"]]
    ELSE IF e.httpMethod # "POST"
    THEN [statusCode |-> 405, body |-> [kind |-> "text", text |-> "Method Not Allowed"]]
    ELSE IF e.body.kind = "malformed"
    THEN GateError(500, "Service temporarily unavailable. Please try again.")
    ELSE IF Get(e.body.value, "messages").t # "arr" \/ Len(Get(e.body.value, "messages").a) = 0
    THEN GateError(400, "Invalid payload: messages[] required")
    ELSE NoResponse

TextReject ==
    /\ hpc = "received"
    /\ TextRejection(event) # NoResponse
    /\ Respond(TextRejection(event))
    /\ UNCHANGED <<messages, analysis, event, modelIndex, inFlight, attempts, reply,
                   rateVars, concVars>>

\* await tryModelsInOrder(finalMessages)
TextEnterChain ==
    /\ hpc = "received"
    /\ TextRejection(event) = NoResponse
    /\ hpc' = "chain"
    /\ modelIndex' = 1
    /\ UNCHANGED <<messages, analysis, event, inFlight, attempts, reply, response,
                   rateVars, concVars>>

\* The fetch for the model the loop is at ends with resp.
TextCallEnds(resp) ==
    /\ hpc = "chain"
    /\ modelIndex <= Len(TextModels)
    /\ LET out == TextAttempt(resp)
       IN  /\ attempts' = Append(attempts,
                             [model |-> TextModels[modelIndex], outcome |-> out.outcome,
                              resp |-> resp])
           /\ IF out.outcome = "success"
              THEN /\ reply' = out.reply
                   /\ hpc' = "saving"
                   /\ modelIndex' = modelIndex
              ELSE /\ reply' = reply
                   /\ hpc' = hpc
                   /\ modelIndex' = modelIndex + 1
    /\ UNCHANGED <<messages, analysis, event, inFlight, response, rateVars, concVars>>

\* throw new Error('All models failed to return valid JSON.'): the catch of
\* the handler answers.
TextChainExhausted ==
    /\ hpc = "chain"
    /\ modelIndex > Len(TextModels)
    /\ Respond(GateError(500, "Service temporarily unavailable. Please try again."))
    /\ UNCHANGED <<messages, analysis, event, modelIndex, inFlight, attempts, reply,
                   rateVars, concVars>>

\* The insert is best effort; then the 200 with the reply.
TextSaveAndRespond ==
    /\ hpc = "saving"
    /\ Respond([statusCode |-> 200, body |-> [kind |-> "reply", reply |-> reply]])
    /\ UNCHANGED <<messages, analysis, event, modelIndex, inFlight, attempts, reply,
                   rateVars, concVars>>

TextNext ==
    \/ TextReject
    \/ TextEnterChain
    \/ \E resp \in TextResponses : TextCallEnds(resp)
    \/ TextChainExhausted
    \/ TextSaveAndRespond

SpecTextChain == TextInit /\ [][TextNext]_vars

\* the completion of an attempt whose response carried one, as the filter sees it
ContentOf(resp) ==
    stringifyObjectContent(
        OptGet(Get(First(OptGet(resp.body, "choices")), "message"), "content"))

CarriesContent(resp) ==
    /\ resp.kind = "http" /\ resp.ok
    /\ resp.body.t = "obj"
    /\ Truthy(First(OptGet(resp.body, "choices")))

\* a run of n identical consecutive characters
HasRun(text, n) ==
    \E i \in 1..(Len(text) - n + 1) :
        \A j \in i..(i + n - 1) : SubSeq(text, j, j) = SubSeq(text, i, i)

\* What the filter is to turn away: empty, shorter than 5 characters, 11 or
\* more identical characters in a row, an HTML marker, 80 or more letters in
\* a row.
Degenerate(content) ==
    \/ content.t # "str"
    \/ Len(content.s) < 5
    \/ HasRun(content.s, 11)
    \/ includes(content.s, "<!DOCTYPE") \/ includes(content.s, "<html")
    \/ \E i \in 1..(Len(content.s) - 79) :
           \A j \in i..(i + 79) : SubSeq(content.s, j, j) \in Letters

\* C22: an attempt whose completion is empty, shorter than 5 characters, has
\* 11 or more identical characters in a row, has an HTML marker or has 80 or
\* more letters in a row never wins: it counts as failed and the loop goes on
\* to the next provider.
C22_DegenerateTextNeverWins ==
    \A i \in 1..Len(attempts) :
        (CarriesContent(attempts[i].resp) /\ Degenerate(ContentOf(attempts[i].resp))) =>
            /\ attempts[i].outcome # "success"
            /\ modelIndex > i

\* The same with the runs of line terminators set aside.
C22_ExceptLineTerminators ==
    \A i \in 1..Len(attempts) :
        (/\ CarriesContent(attempts[i].resp)
         /\ Degenerate(ContentOf(attempts[i].resp))
         /\ ContentOf(attempts[i].resp).t = "str" =>
                (HasRun(ContentOf(attempts[i].resp).s, 11)
                    => hasLongRepeat(ContentOf(attempts[i].resp).s))) =>
            /\ attempts[i].outcome # "success"
            /\ modelIndex > i

\* every model of the chain has been tried and none succeeded
TextChainFailed ==
    /\ Len(attempts) = Len(TextModels)
    /\ \A i \in 1..Len(attempts) : attempts[i].outcome # "success"

\* C25: when the chain that ends with 'All models failed to return valid
\* JSON.' is exhausted, the handler still answers with a success status and
\* a reply that has the fields of the contract, not with an error.
C25_ExhaustionGivesDegradedReply ==
    (hpc = "responded" /\ TextChainFailed) =>
        /\ response.statusCode = 200
        /\ response.body.kind = "reply"
        /\ response.body.reply.json.t = "obj"
        /\ {"type", "confidence", "strengths", "growth_tips", "one_liner"}
              \subseteq DOMAIN response.body.reply.json.o

-----------------------------------------------------------------------------
(* The hourly sweep against the decisions of checkRateLimit.               *)

\* The instance stays warm for a little less than a day, so that a sweep
\* finds timestamps on both sides of its horizon.
AlmostDayPasses ==
    /\ clock < maxAge
    /\ clock' = clock + maxAge - TickMs
    /\ UNCHANGED <<rateLimit, limitArgs, calls, trackerVars, chatVars, concVars>>

SweepNext == checkRateLimit \/ Tick \/ AlmostDayPasses \/ Cleanup

SpecSweep == RateInit /\ [][SweepNext]_vars

\* this.rateLimit.get(hashedIP), [] for a key the Map does not hold
TimestampsOf(map) == IF has(map, ClientKey) THEN map[ClientKey] ELSE <<>>

\* The record of the client after the first n calls of the history when no
\* sweep ever runs: the body of checkRateLimit replayed over the calls.
recordAfter(before, valid, now) ==
    IF limitExceeded(Len(valid), limitArgs.requests)
    THEN before
    ELSE Append(valid, now)

replayCall(before, now) ==
    recordAfter(before, validTimestamps(before, now, limitArgs.windowMs), now)

\* (the record of the calls before is bound once, as a value)
RECURSIVE NoSweep(_)
NoSweep(n) ==
    IF n = 0 THEN <<>>
    ELSE CHOOSE after \in {replayCall(before, calls[n].time) :
                              before \in {NoSweep(n - 1)}} : TRUE

NoSweepDecision(n) ==
    ~limitExceeded(Len(validTimestamps(NoSweep(n - 1), calls[n].time,
                                       limitArgs.windowMs)),
                   limitArgs.requests)

Elements(seq) == {seq[i] : i \in 1..Len(seq)}

\* a step of the sweep that changed the Map
SweepStep == calls' = calls /\ clock' = clock /\ rateLimit' # rateLimit

\* C23: a sweep removes only timestamps at least 24 hours old, deletes the
\* key only when none of its timestamps remain, and leaves a key only with
\* a timestamp younger than 24 hours; every decision of checkRateLimit made
\* with sweeps interleaved is the decision the same calls get without any
\* sweep, and the two records agree on the timestamps younger than 24 hours.
C23_SweepInvisible ==
    [][ /\ SweepStep =>
            /\ limitArgs.windowMs <= maxAge
            /\ Elements(TimestampsOf(rateLimit')) \subseteq Elements(TimestampsOf(rateLimit))
            /\ validTimestamps(TimestampsOf(rateLimit'), clock, maxAge)
                  = validTimestamps(TimestampsOf(rateLimit), clock, maxAge)
            /\ ~has(rateLimit', ClientKey) =>
                  Len(validTimestamps(TimestampsOf(rateLimit), clock, maxAge)) = 0
            /\ has(rateLimit', ClientKey) =>
                  Len(validTimestamps(rateLimit'[ClientKey], clock, maxAge)) >= 1
        /\ calls' # calls =>
              calls'[Len(calls')].admitted = NoSweepDecision(Len(calls))'
        /\ validTimestamps(TimestampsOf(rateLimit'), clock', maxAge)
              = validTimestamps(NoSweep(Len(calls))', clock', maxAge)
      ]_vars

\* a sweep has just removed the day-old timestamps of a client and kept a
\* younger one, after admitted and rejected calls: the record now differs
\* from the record the same calls leave without a sweep
C23_Witness ==
    /\ clock >= maxAge
    /\ \E i \in 1..Len(calls) : calls[i].admitted /\ calls[i].time = 0
    /\ \E i \in 1..Len(calls) : ~calls[i].admitted
    /\ has(rateLimit, ClientKey)
    /\ Len(TimestampsOf(rateLimit)) < Len(NoSweep(Len(calls)))
    /\ \A i \in 1..Len(TimestampsOf(rateLimit)) :
           clock - TimestampsOf(rateLimit)[i] < maxAge

-----------------------------------------------------------------------------
(* getModelParams(model, conversationDepth).  Temperatures and top_p are   *)
(* in hundredths.                                                          *)

MaxUserMessages == 9

\* the first number of each temperature expression
baseTemperature ==
    [m \in {"anthropic/claude-3.5-haiku", "openai/gpt-4o-mini"} |-> 80]
        @@ ("google/gemini-flash-1.5-8b" :> 70)
        @@ ("meta-llama/llama-3.1-8b-instruct" :> 60)

\* Variant: the temperature without Math.min.
temperatureUncapped(base, messageCount) == base + messageCount * 10

\* Math.min(1.1, base + (conversationDepth.messageCount * 0.1))
temperature(base, messageCount) == Min({110, base + messageCount * 10})

baseParams(conversationDepth) ==
    ("anthropic/claude-3.5-haiku" :>
        [max_tokens |-> 250,
         temperature |-> temperature(80, conversationDepth.messageCount)])
    @@ ("google/gemini-flash-1.5-8b" :>
        [max_tokens |-> 200,
         temperature |-> temperature(70, conversationDepth.messageCount)])
    @@ ("meta-llama/llama-3.1-8b-instruct" :>
        [max_tokens |-> 180,
         temperature |-> temperature(60, conversationDepth.messageCount),
         top_p |-> 90])
    @@ ("openai/gpt-4o-mini" :>
        [max_tokens |-> 200,
         temperature |-> temperature(80, conversationDepth.messageCount)])

\* return baseParams[model] || { max_tokens: 200, temperature: 0.8 }
getModelParams(model, conversationDepth) ==
    IF model \in DOMAIN baseParams(conversationDepth)
    THEN baseParams(conversationDepth)[model]
    ELSE [max_tokens |-> 200, temperature |-> 80]

\* The models a caller may name: those of the table and two it does not hold.
ParamModels ==
    {"anthropic/claude-3.5-haiku", "google/gemini-flash-1.5-8b",
     "meta-llama/llama-3.1-8b-instruct", "openai/gpt-4o-mini",
     "mistralai/mistral-7b-instruct", "openai/gpt-4o"}

ParamsInit ==
    /\ event \in {[model |-> m, messageCount |-> n] :
                     m \in ParamModels, n \in 0..MaxUserMessages}
    /\ hpc = "received"
    /\ response = NoResponse
    /\ messages = <<>>
    /\ analysis = NoAnalysis
    /\ modelIndex = 0
    /\ inFlight = {}
    /\ attempts = <<>>
    /\ reply = NoReply
    /\ RateIdle
    /\ ConcIdle

\* const params = getModelParams(model, conversationDepth)
ParamsCall ==
    /\ hpc = "received"
    /\ reply' = getModelParams(event.model, event)
    /\ hpc' = "computed"
    /\ UNCHANGED <<messages, analysis, event, modelIndex, inFlight, attempts,
                   response, rateVars, concVars>>

SpecParams == ParamsInit /\ [][ParamsCall]_vars

\* C24: for a model of the table and n user messages the temperature is
\* min(1.1, base + 0.1 n), lies between the base of the model and 1.1 and
\* is not below the temperature of any shorter conversation; max_tokens is
\* the same for every n and at most 250; a model the table does not hold
\* gets max_tokens 200 and temperature 0.8.
C24_TemperatureBounded ==
    hpc = "computed" =>
        IF event.model \in DOMAIN baseTemperature
        THEN LET base == baseTemperature[event.model]
             IN  /\ (base + 10 * event.messageCount <= 110
                        => reply.temperature = base + 10 * event.messageCount)
                 /\ (base + 10 * event.messageCount >= 110
                        => reply.temperature = 110)
                 /\ reply.temperature >= base
                 /\ reply.temperature <= 110
                 /\ \A k \in 0..event.messageCount :
                       /\ getModelParams(event.model, [messageCount |-> k]).temperature
                             <= reply.temperature
                       /\ getModelParams(event.model, [messageCount |-> k]).max_tokens
                             = reply.max_tokens
                 /\ reply.max_tokens <= 250
        ELSE reply = [max_tokens |-> 200, temperature |-> 80]

\* the ceiling has cut the temperature of a long conversation
C24_Witness ==
    /\ hpc = "computed"
    /\ event.model = "meta-llama/llama-3.1-8b-instruct"
    /\ event.messageCount = 7
    /\ reply.temperature = 110
    /\ reply.max_tokens = 180

-----------------------------------------------------------------------------
(* The ChatGLM handler of mbti-chat.js.  A request body is Undefined or a  *)
(* Text; the messages it carries are an Arr of [role, content] records.    *)

\* what the platform sees when the promise of the handler rejects
GlmRejected(error) == [rejected |-> TRUE, error |-> error]

\* JSON.parse(event.body || '{}')
glmParseBody(e) ==
    IF e.body.t = "undefined" THEN EmptyObject ELSE JsonParse(e.body)

glmUserCount(list) == Cardinality({i \in 1..Len(list.a) : IsUser(list.a[i])})

\* Math.min(n + 1, 5), as a number of the model
glmProgress(n) == Num(100 * (IF n + 1 < 5 THEN n + 1 ELSE 5))

\* JSON.stringify(v) of a parsed value: an object as JsonStringify writes it,
\* anything else as itself
glmStringify(v) ==
    IF v.t = "obj" THEN JsonStringify(v.o) ELSE Text(FALSE, FALSE, v)

GlmOk(v) == [statusCode |-> 200, body |-> glmStringify(v)]

\* The catch block: the body is parsed again, outside any try.
glmCatch(e) ==
    LET parsed == glmParseBody(e)
        list == IF parsed.t = "thrown" \/ parsed.t = "null" THEN Undefined
                ELSE OrElse(Get(parsed, "messages"), Arr(<<>>))
        userMessageCount == glmUserCount(list)
    IN  IF parsed.t = "thrown" THEN GlmRejected("SyntaxError")
        ELSE IF parsed.t = "null" \/ list.t # "arr" THEN GlmRejected("TypeError")
        ELSE GlmOk(Obj([message |-> Str(IF userMessageCount = 0
                                       THEN "Hi there! I'm here to help you discover your MBTI personality type."
                                       ELSE "That's helpful to know! Can you tell me more about how you prefer to approach learning new things?"),
                        type |-> Null,
                        confidence |-> Num(0),
                        ready |-> Bool(FALSE),
                        progress |-> glmProgress(userMessageCount)]))

\* const { messages = [] } = requestData
glmMessages(requestData) ==
    IF Get(requestData, "messages").t = "undefined" THEN Arr(<<>>)
    ELSE Get(requestData, "messages")

\* the statements of the try block up to the call of fetch throw
glmThrowsBeforeFetch(e) ==
    \/ ~e.apiKey
    \/ glmParseBody(e).t \in {"thrown", "null"}
    \/ glmMessages(glmParseBody(e)).t # "arr"

\* the type the fallback reads from the conversation
glmInferredType(list) ==
    LET conversation == allContentOf(list.a)
    IN  IF includes(conversation, "alone") \/ includes(conversation, "quiet")
        THEN (IF includes(conversation, "logical") THEN "INTP" ELSE "INFP")
        ELSE IF includes(conversation, "people") \/ includes(conversation, "social")
        THEN (IF includes(conversation, "logical") THEN "ENTJ" ELSE "ENFP")
        ELSE "ENFP"

\* The fallback of the inner catch, by the number of user messages; the
\* messages it writes are held by their first sentence.
glmSmartFallback(list) ==
    LET messageCount == glmUserCount(list)
        asking(text, progress) ==
            Obj([message |-> Str(text), type |-> Null, confidence |-> Num(0),
                 ready |-> Bool(FALSE), progress |-> Num(progress)])
    IN  IF messageCount = 0 THEN
            asking("Hi! I'll help you discover your MBTI personality type through a friendly conversation.", 100)
        ELSE IF messageCount <= 2 THEN
            asking("That's interesting! Now I'm curious about how you prefer to learn new things.", 200)
        ELSE IF messageCount <= 4 THEN
            asking("Great! One more area I'd like to explore:", 400)
        ELSE IF \E i \in 1..Len(list.a) : "content" \notin DOMAIN list.a[i] THEN
            Thrown
        ELSE Obj([message |-> Str("Based on our conversation, you appear to be an "
                                   \o glmInferredType(list) \o " personality type!"),
                  type |-> Str(glmInferredType(list)),
                  confidence |-> Num(70),
                  ready |-> Bool(TRUE),
                  progress |-> Num(500)])

\* "Validate and ensure required fields", on an object
glmEnsureFields(result, list) ==
    LET withMessage == IF Truthy(Get(result, "message")) THEN result.o
                       ELSE ("message" :> Str("Can you tell me more about that?")) @@ result.o
        withReady == IF Get(result, "ready").t = "bool" THEN withMessage
                     ELSE ("ready" :> Bool(FALSE)) @@ withMessage
        withProgress == IF Get(result, "progress").t = "num" THEN withReady
                        ELSE ("progress" :> glmProgress(glmUserCount(list))) @@ withReady
        withConfidence == IF Get(result, "confidence").t = "num" THEN withProgress
                          ELSE ("confidence" :> Num(0)) @@ withProgress
    IN  Obj(withConfidence)

\* content.replace(/```json\s*|\s*```/g, '').trim(), then
\* content.replace(/^[^{]*({.*})[^}]*$/s, '$1')
glmClean(content) ==
    IF content.t # "text" THEN content
    ELSE [content EXCEPT !.fenced = FALSE,
                         !.prose = IF content.json.t = "obj" THEN FALSE ELSE @]

\* The try block from the answer of fetch on.  An assignment to a property
\* of a number, a string or a boolean does nothing in this script, and
\* JSON.stringify leaves out the named properties of an array.
glmAfterFetch(e, resp) ==
    LET list == glmMessages(glmParseBody(e))
        apiData == IF resp.kind = "network_error" \/ ~resp.ok THEN Thrown
                   ELSE JsonParse(resp.body)
        content == OptGet(OptGet(First(OptGet(apiData, "choices")), "message"), "content")
        parsedContent == JsonParse(glmClean(content))
        result == IF parsedContent.t = "thrown" THEN glmSmartFallback(list)
                  ELSE parsedContent
    IN  IF apiData.t = "thrown" \/ ~Truthy(content) \/ ~IsString(content) THEN glmCatch(e)
        ELSE IF result.t \in {"thrown", "null"} THEN glmCatch(e)
        ELSE IF result.t = "obj" THEN GlmOk(glmEnsureFields(result, list))
        ELSE GlmOk(result)

GlmTurn(role, content) == [role |-> role, content |-> content]

GlmConversation(n) ==
    [i \in 1..(2 * n) |-> IF i % 2 = 1
                          THEN GlmTurn("user", IF i = 1 THEN "I like being alone" ELSE "Logical")
                          ELSE GlmTurn("assistant", "Tell me more")]

GlmBodies ==
    {Undefined,
     Text(FALSE, FALSE, NotJson),
     Text(FALSE, FALSE, Null),
     Text(FALSE, FALSE, EmptyObject),
     Text(FALSE, FALSE, Obj([messages |-> Null])),
     Text(FALSE, FALSE, Obj([messages |-> Num(500)])),
     Text(FALSE, FALSE, Obj([messages |-> Arr(<<[role |-> "user"], [role |-> "user"],
                                                [role |-> "user"], [role |-> "user"],
                                                [role |-> "user"]>>)]))}
    \cup {Text(FALSE, FALSE, Obj([messages |-> Arr(GlmConversation(n))])) : n \in 0..5}

GlmAnswer == Obj([message |-> Str("What helps you recharge?"), type |-> Null,
                  confidence |-> Num(20), ready |-> Bool(FALSE), progress |-> Num(200)])

GlmResponses ==
    {[kind |-> "network_error"],
     HttpError(500), HttpError(429),
     HttpOk(Text(FALSE, FALSE, NotJson)),
     HttpOk(Text(FALSE, FALSE, EmptyObject)),
     HttpOk(Text(FALSE, FALSE, Obj([choices |-> Arr(<<>>)]))),
     HttpOk(Text(FALSE, FALSE, Envelope(Num(500)))),
     HttpOk(Text(FALSE, FALSE, Envelope(Str("Sorry, I cannot answer that.")))),
     HttpOk(Text(FALSE, FALSE, Envelope(Text(FALSE, FALSE, GlmAnswer)))),
     HttpOk(Text(FALSE, FALSE, Envelope(Text(TRUE, FALSE, GlmAnswer)))),
     HttpOk(Text(FALSE, FALSE, Envelope(Text(FALSE, TRUE, GlmAnswer)))),
     HttpOk(Text(FALSE, FALSE, Envelope(Text(FALSE, FALSE, EmptyObject)))),
     HttpOk(Text(FALSE, FALSE, Envelope(Text(FALSE, FALSE, Null)))),
     HttpOk(Text(FALSE, FALSE, Envelope(Text(FALSE, FALSE, Num(500))))),
     HttpOk(Text(FALSE, FALSE, Envelope(Text(FALSE, FALSE, Arr(<<>>)))))}

GlmInit ==
    /\ event \in {[httpMethod |-> m, apiKey |-> k, body |-> b] :
                     m \in {"POST", "OPTIONS", "GET"}, k \in BOOLEAN, b \in GlmBodies}
    /\ hpc = "received"
    /\ response = NoResponse
    /\ messages = <<>>
    /\ analysis = NoAnalysis
    /\ modelIndex = 0
    /\ inFlight = {}
    /\ attempts = <<>>
    /\ reply = NoReply
    /\ RateIdle
    /\ ConcIdle

GlmUnchanged ==
    UNCHANGED <<messages, analysis, event, modelIndex, inFlight, reply,
                rateVars, concVars>>

\* the preflight and the method check
GlmRefuse ==
    /\ hpc = "received"
    /\ event.httpMethod # "POST"
    /\ Respond(IF event.httpMethod = "OPTIONS"
               THEN [statusCode |-> 200, body |-> Str("")]
               ELSE GateError(405, "Method not allowed"))
    /\ UNCHANGED attempts
    /\ GlmUnchanged

\* a throw before fetch is called lands in the catch block
GlmFailsEarly ==
    /\ hpc = "received"
    /\ event.httpMethod = "POST"
    /\ glmThrowsBeforeFetch(event)
    /\ Respond(glmCatch(event))
    /\ UNCHANGED attempts
    /\ GlmUnchanged

\* await fetch(...)
GlmCall ==
    /\ hpc = "received"
    /\ event.httpMethod = "POST"
    /\ ~glmThrowsBeforeFetch(event)
    /\ hpc' = "calling"
    /\ UNCHANGED <<response, attempts>>
    /\ GlmUnchanged

\* the provider answers, or the call fails
GlmCallEnds(resp) ==
    /\ hpc = "calling"
    /\ attempts' = <<resp>>
    /\ Respond(glmAfterFetch(event, resp))
    /\ GlmUnchanged

GlmNext ==
    \/ GlmRefuse
    \/ GlmFailsEarly
    \/ GlmCall
    \/ \E resp \in GlmResponses : GlmCallEnds(resp)

SpecGlm == GlmInit /\ [][GlmNext]_vars

GlmFields == {"message", "type", "confidence", "ready", "progress"}

\* the reply was written by the outer catch block
GlmErrorPath ==
    \/ glmThrowsBeforeFetch(event)
    \/ /\ attempts # <<>>
       /\ glmAfterFetch(event, attempts[1]) = glmCatch(event)

\* C26: every POST is answered, never rejected, with status 200 and a body
\* that is an object with message, type, confidence, ready and progress; on
\* the error path ready is false and progress is min(user messages + 1, 5).
C26_SmartFallbackAlways ==
    (hpc = "responded" /\ event.httpMethod = "POST") =>
        /\ "rejected" \notin DOMAIN response
        /\ response.statusCode = 200
        /\ response.body.json.t = "obj"
        /\ GlmFields \subseteq DOMAIN response.body.json.o
        /\ GlmErrorPath =>
              /\ response.body.json.o.ready = Bool(FALSE)
              /\ response.body.json.o.progress
                    = glmProgress(glmUserCount(glmMessages(glmParseBody(event))))

\* The same for the failures of the provider and of the API key alone: the
\* request body is an object whose messages, if any, are a list.
C26_WellFormedRequests ==
    (/\ hpc = "responded"
     /\ event.httpMethod = "POST"
     /\ glmParseBody(event).t = "obj"
     /\ glmMessages(glmParseBody(event)).t = "arr"
     /\ GlmErrorPath) =>
        /\ "rejected" \notin DOMAIN response
        /\ response.statusCode = 200
        /\ response.body.json.t = "obj"
        /\ GlmFields \subseteq DOMAIN response.body.json.o
        /\ response.body.json.o.ready = Bool(FALSE)
        /\ response.body.json.o.progress
              = glmProgress(glmUserCount(glmMessages(glmParseBody(event))))

-----------------------------------------------------------------------------
(* The secure handler with one provider: getAIResponseFromOpenAI and the   *)
(* handler that calls it.                                                  *)

\* controller.abort() fired before fetch settled
Aborted == [kind |-> "timeout"]

\* the reply of the catch block of getAIResponseFromOpenAI
gracefulFallback ==
    Text(FALSE, FALSE,
         Obj([ready_for_analysis |-> Bool(FALSE),
              one_liner |-> Str("I'm experiencing a temporary connection issue. Could you please try asking that again in a moment?"),
              progress |-> Obj([current_step |-> Num(100), total_steps |-> Num(500),
                                step_description |-> Str("System error - please retry")])]))

\* What the catch block of getAIResponseFromOpenAI does with an error.
recoverOrRethrow(resp) ==
    IF resp.kind = "timeout"
    THEN [threw |-> TRUE, error |-> "Request to OpenAI timed out. Please try again."]
    ELSE [threw |-> FALSE, value |-> gracefulFallback]

\* getAIResponseFromOpenAI(messages), the API key being set: what it returns
\* or throws once fetch has settled with resp.
getAIResponseFromOpenAI(resp) ==
    LET jsonResponse == JsonParse(resp.body)
        message == OptGet(First(OptGet(jsonResponse, "choices")), "message")
        aiContent == Get(message, "content")
    IN  IF resp.kind # "http" \/ ~resp.ok THEN recoverOrRethrow(resp)
        ELSE IF jsonResponse.t \in {"thrown", "null"} THEN recoverOrRethrow(resp)
        ELSE IF ~Truthy(message) THEN recoverOrRethrow(resp)
        ELSE IF aiContent.t = "null" \/ aiContent.t = "num" \/ aiContent.t = "bool"
        THEN [threw |-> FALSE, value |-> aiContent]
        ELSE IF aiContent.t # "text" \/ JsonParse(aiContent).t = "thrown"
        THEN recoverOrRethrow(resp)
        ELSE [threw |-> FALSE, value |-> aiContent]

SecureAnswer ==
    Obj([ready_for_analysis |-> Bool(FALSE), one_liner |-> Str("What do you do to recharge?")])

SecureResponses ==
    {Aborted,
     [kind |-> "network_error"],
     HttpError(500), HttpError(429), HttpError(401), HttpError(400),
     HttpOk(Text(FALSE, FALSE, NotJson)),
     HttpOk(Text(FALSE, FALSE, Null)),
     HttpOk(Text(FALSE, FALSE, EmptyObject)),
     HttpOk(Text(FALSE, FALSE, Obj([choices |-> Arr(<<>>)]))),
     HttpOk(Text(FALSE, FALSE, Envelope(Str("Sorry, I cannot answer that.")))),
     HttpOk(Text(FALSE, FALSE, Envelope(Text(TRUE, FALSE, SecureAnswer)))),
     HttpOk(Text(FALSE, FALSE, Envelope(Text(FALSE, FALSE, SecureAnswer))))}

\* a provider failure: anything but a completion that is valid JSON
ProviderFailed(resp) == resp # HttpOk(Text(FALSE, FALSE, Envelope(Text(FALSE, FALSE, SecureAnswer))))

SecureBodies ==
    {Text(FALSE, FALSE, NotJson),
     Text(FALSE, FALSE, Obj([messages |-> Arr(<<>>)])),
     Text(FALSE, FALSE, Obj([messages |-> Arr(<<GateMessage("user", "I like quiet evenings.")>>)]))}

\* The handler from its entry to the first of its returns, NoResponse when
\* it goes on to call the provider.
secureEntry(e) ==
    IF e.httpMethod = "OPTIONS" THEN [statusCode |-> 204, body |-> [kind |-> "empty"]]
    ELSE IF e.httpMethod # "POST" THEN GateError(405, "Method not allowed")
    ELSE IF ~e.originAllowed THEN GateError(403, "Origin not allowed")
    ELSE IF ~e.admitted THEN GateError(429, "Too many requests. Please try again in a minute.")
    ELSE IF ~e.apiKey THEN GateError(500, "Service temporarily unavailable")
    ELSE IF JsonParse(e.body).t = "thrown" THEN GateError(400, "Invalid JSON format")
    ELSE IF ~validateMessages(Get(JsonParse(e.body), "messages")).valid
    THEN GateError(400, "Invalid message format or content")
    ELSE NoResponse

SecureInit ==
    /\ event \in {[httpMethod |-> m, originAllowed |-> o, admitted |-> a,
                   apiKey |-> k, body |-> b] :
                     m \in {"POST", "OPTIONS", "GET"}, o \in BOOLEAN, a \in BOOLEAN,
                     k \in BOOLEAN, b \in SecureBodies}
    /\ hpc = "received"
    /\ response = NoResponse
    /\ messages = <<>>
    /\ analysis = NoAnalysis
    /\ modelIndex = 0
    /\ inFlight = {}
    /\ attempts = <<>>
    /\ reply = NoReply
    /\ RateIdle
    /\ ConcIdle

SecureUnchanged ==
    UNCHANGED <<messages, analysis, event, modelIndex, inFlight, rateVars, concVars>>

\* one of the returns before the provider is called
SecureRefuse ==
    /\ hpc = "received"
    /\ secureEntry(event) # NoResponse
    /\ Respond(secureEntry(event))
    /\ UNCHANGED <<attempts, reply>>
    /\ SecureUnchanged

\* await getAIResponseFromOpenAI(sanitizedMessages): fetch is called
SecureCall ==
    /\ hpc = "received"
    /\ secureEntry(event) = NoResponse
    /\ hpc' = "calling"
    /\ UNCHANGED <<attempts, reply, response>>
    /\ SecureUnchanged

\* fetch settles or is aborted; a throw of getAIResponseFromOpenAI lands in
\* the catch block of the handler
SecureCallEnds(resp) ==
    /\ hpc = "calling"
    /\ attempts' = <<resp>>
    /\ LET got == getAIResponseFromOpenAI(resp)
       IN  IF got.threw
           THEN /\ Respond(GateError(500, "An error occurred while processing your request"))
                /\ UNCHANGED reply
           ELSE /\ reply' = got.value
                /\ hpc' = "saving"
                /\ UNCHANGED response
    /\ SecureUnchanged

\* saveConversationToDatabase returns an id whatever happens, then the 200
SecureSaveEnds(stored) ==
    /\ hpc = "saving"
    /\ Respond([statusCode |-> 200,
                body |-> [kind |-> "reply", reply |-> reply,
                          conversation_id |-> IF stored THEN StoredId ELSE LocalId]])
    /\ UNCHANGED <<attempts, reply>>
    /\ SecureUnchanged

SecureNext ==
    \/ SecureRefuse
    \/ SecureCall
    \/ \E resp \in SecureResponses : SecureCallEnds(resp)
    \/ \E stored \in BOOLEAN : SecureSaveEnds(stored)

SpecSecure == SecureInit /\ [][SecureNext]_vars

\* C27: whatever failure the provider call ends with, the timeout included,
\* the handler answers 200 with the graceful fallback reply; no provider
\* failure is answered 500.
C27_ProviderFailuresRecovered ==
    (hpc = "responded" /\ attempts # <<>> /\ ProviderFailed(attempts[1])) =>
        /\ response.statusCode = 200
        /\ response.body.kind = "reply"
        /\ response.body.reply = gracefulFallback

\* The same with the timeout set aside.
C27_ExceptTimeout ==
    (hpc = "responded" /\ attempts # <<>> /\ ProviderFailed(attempts[1])
        /\ attempts[1] # Aborted) =>
        /\ response.statusCode = 200
        /\ response.body.kind = "reply"
        /\ response.body.reply = gracefulFallback

-----------------------------------------------------------------------------
(* Readiness against clarification.                                        *)

\* C28: a transcript is never both ready for analysis and in need of
\* clarification; when one covered dimension is poor every covered dimension
\* is poor and no answer is good; the good answers are at most the covered
\* dimensions, which are at most four; an uncovered dimension has quality
\* none.
C28_ReadyExcludesClarification ==
    /\ ~(isReadyForAnalysis(analysis) /\ needsClarification(analysis))
    /\ needsClarification(analysis) =>
          /\ \A d \in Dimensions : Covered(d) => analysis.dimensions[d].quality = "poor"
          /\ analysis.goodQualityAnswers = 0
    /\ analysis.goodQualityAnswers <= analysis.coveredDimensions
    /\ analysis.coveredDimensions <= 4
    /\ \A d \in Dimensions : ~Covered(d) => analysis.dimensions[d].quality = "none"

\* all four dimensions are covered and the last answer is a poor one
C28_Witness ==
    /\ Len(messages) = 3
    /\ messages[3] = User("Not sure, maybe both")
    /\ analysis.coveredDimensions = 4
    /\ needsClarification(analysis)
    /\ ~isReadyForAnalysis(analysis)
    /\ isReadyForAnalysis(analyzeConversationDepth(SubSeq(messages, 1, 2)))

-----------------------------------------------------------------------------
(* A series of requests of one client to the conflict-chat or the          *)
(* personality-chat handler, each taken up to its first return or to the   *)
(* call of the provider.  calls holds the decisions of checkRateLimit,     *)
(* inFlight the positions in calls of the requests that went on to the     *)
(* provider.                                                               *)

SlotEvent(method, origin, bytes, body) ==
    [httpMethod |-> method, origin |-> origin, development |-> FALSE,
     bodyBytes |-> bytes, body |-> body]

WellFormedBody ==
    [kind |-> "json",
     value |-> Obj([messages |-> Arr(<<GateMessage("user", "We argue.")>>)])]

WellFormedRequest == SlotEvent("POST", "http://localhost:3000", maxRequestSize, WellFormedBody)

SlotEvents ==
    {SlotEvent("OPTIONS", "http://localhost:3000", maxRequestSize, [kind |-> "empty"]),
     SlotEvent("GET", "http://localhost:3000", maxRequestSize, [kind |-> "empty"]),
     SlotEvent("POST", "https://evil.example", maxRequestSize, WellFormedBody),
     SlotEvent("POST", "http://localhost:3000", maxRequestSize + 1, WellFormedBody),
     SlotEvent("POST", "http://localhost:3000", maxRequestSize, [kind |-> "malformed"]),
     SlotEvent("POST", "http://localhost:3000", maxRequestSize,
               [kind |-> "json", value |-> Obj([messages |-> Arr(<<>>)])]),
     WellFormedRequest}

SlotInit ==
    /\ event = NoEvent
    /\ hpc = "idle"
    /\ response = NoResponse
    /\ messages = <<>>
    /\ analysis = NoAnalysis
    /\ modelIndex = 0
    /\ inFlight = {}
    /\ attempts = <<>>
    /\ reply = NoReply
    /\ clock = 0
    /\ rateLimit = <<>>
    /\ limitArgs \in CallSites
    /\ calls = <<>>
    /\ ConcIdle

\* The handler takes a request.  The series ends once the limiter was asked
\* L + 1 times, and one request at most is followed to the provider.
SlotRequest(e) ==
    /\ Len(calls) <= limitArgs.requests
    /\ \E limiter \in {checkRateLimitCall(rateLimit, clock, limitArgs)} :
       \E entry \in {GateEntry(e, limiter)} :
       \E reaches \in {ReachesLimiter(e)} :
           /\ entry.response = NoResponse => inFlight = {}
           /\ event' = e
           /\ response' = entry.response
           /\ hpc' = IF entry.response = NoResponse THEN "calling" ELSE "responded"
           /\ rateLimit' = IF reaches THEN limiter.map ELSE rateLimit
           /\ calls' = IF reaches
                       THEN Append(calls, Decision(clock, limiter.admitted))
                       ELSE calls
           /\ inFlight' = IF entry.response = NoResponse
                          THEN inFlight \cup {Len(calls) + 1}
                          ELSE inFlight
    /\ UNCHANGED <<messages, analysis, modelIndex, attempts, reply, clock, limitArgs,
                   concVars>>

SlotNext == Tick \/ \E e \in SlotEvents : SlotRequest(e)

SpecSlots == SlotInit /\ [][SlotNext]_vars

\* the timestamps of the client that checkRateLimit counts at the instant now
SlotsInWindow(map, now) == validTimestamps(TimestampsOf(map), now, limitArgs.windowMs)

\* the earlier requests that were admitted by the limiter within the window
\* and then refused by a later check of the handler
RefusedAfterAdmission ==
    {i \in 1..Len(calls) : /\ calls[i].admitted
                           /\ i \notin inFlight
                           /\ clock - calls[i].time < limitArgs.windowMs}

\* C29: a preflight, a request that is no POST and a request of a disallowed
\* origin leave the window of the client as it is; a request that reaches
\* checkRateLimit and is admitted adds its timestamp, also when it is then
\* answered 413 or 400; a request adds a timestamp in no other case; and
\* after L requests refused that way within the window the next well-formed
\* request is answered 429.
C29_SlotsConsumedOnAdmission ==
    [][ clock' = clock =>
          /\ response'.statusCode \in {204, 405, 403} =>
                TimestampsOf(rateLimit') = TimestampsOf(rateLimit)
          /\ response'.statusCode \in {413, 400, 0} =>
                TimestampsOf(rateLimit') = Append(SlotsInWindow(rateLimit, clock), clock)
          /\ Len(SlotsInWindow(rateLimit', clock)) > Len(SlotsInWindow(rateLimit, clock)) =>
                response'.statusCode \in {413, 400, 0}
          /\ (Cardinality(RefusedAfterAdmission) >= limitArgs.requests
                 /\ event' = WellFormedRequest) =>
                response'.statusCode = 429
      ]_vars

\* ten requests were admitted and then refused, none went on to the
\* provider, and the well-formed request that followed got 429
C29_Witness ==
    /\ limitArgs.requests = 10
    /\ Len(calls) = 11
    /\ inFlight = {}
    /\ \A i \in 1..10 : calls[i].admitted
    /\ ~calls[11].admitted
    /\ calls[1].time < calls[10].time
    /\ event = WellFormedRequest
    /\ response.statusCode = 429

-----------------------------------------------------------------------------
(* The reply for a conversation that is ready.                             *)

\* the reply is the output of a provider attempt that succeeded
FromProvider ==
    /\ Returned
    /\ attempts # <<>>
    /\ Succeeded(Len(attempts))

\* C30: when the tracker calls the conversation ready and a provider attempt
\* succeeds, the reply has validation_status ready_for_analysis, an empty
\* missing_dimensions list, a confidence between 0.7 and 1, and a type other
\* than "Unknown".
C30_ReadyReplyIsConcrete ==
    (FromProvider /\ isReadyForAnalysis(analysis)) =>
        /\ ReplyField("validation_status") = Str("ready_for_analysis")
        /\ ReplyField("missing_dimensions") = Arr(<<>>)
        /\ ReplyField("confidence").t = "num"
        /\ ReplyField("confidence").n >= ReadyConfidence
        /\ ReplyField("confidence").n <= MaxConfidence
        /\ ReplyField("type") # Str("Unknown")

\* The same without the type and the confidence.
C30_StatusAndMissing ==
    (FromProvider /\ isReadyForAnalysis(analysis)) =>
        /\ ReplyField("validation_status") = Str("ready_for_analysis")
        /\ ReplyField("missing_dimensions") = Arr(<<>>)

====
